---- MODULE Spec2Model ----
(***************************************************************************)
(* Model of the SCADA flow-meter web server: the development variant       *)
(* (src/app.py, pymssql, paginated query) and the production variant       *)
(* (src/application.py, pyodbc, TOP (limit) query).                        *)
(*                                                                         *)
(* Text is a sequence of Unicode code points.  A float is a record         *)
(* [kind, neg, digits, exp]: kind "finite" is an IEEE double, written as   *)
(* repr() writes it (the shortest decimal that reads back as that double,  *)
(* digits times 10^exp), so that two texts of one double give one value;   *)
(* kind "inf" and "nan" are the IEEE specials and kind "null" is Python's  *)
(* None.                                                                   *)
(***************************************************************************)
EXTENDS Integers, Sequences, FiniteSets, TLC

VARIABLES variant, rows, clock, q, u, last, raw, parsed

vars == <<variant, rows, clock, q, u, last, raw, parsed>>

(***************************************************************************)
(* Bounds of the model.                                                    *)
(***************************************************************************)
MaxRows == 2

MaxClock == 2

MaxLen == 3

MaxInFlight == 2

(***************************************************************************)
(* Characters and text.  A character is its Unicode code point.            *)
(***************************************************************************)
\* The printable ASCII characters from code point 32 to 95, and those from
\* 97 to 126 (96, the grave accent, has no string in this notation).
AsciiLow == <<
  " ", "!", "\"", "#", "$", "%", "&", "'", "(", ")", "*", "+", ",", "-",
  ".", "/", "0", "1", "2", "3", "4", "5", "6", "7", "8", "9", ":", ";",
  "<", "=", ">", "?", "@", "A", "B", "C", "D", "E", "F", "G", "H", "I",
  "J", "K", "L", "M", "N", "O", "P", "Q", "R", "S", "T", "U", "V", "W",
  "X", "Y", "Z", "[", "\\", "]", "^", "_" >>

AsciiHigh == <<
  "a", "b", "c", "d", "e", "f", "g", "h", "i", "j", "k", "l", "m", "n",
  "o", "p", "q", "r", "s", "t", "u", "v", "w", "x", "y", "z", "{", "|",
  "}", "~" >>

\* ord(c) of a printable ASCII character written as a string.
ord(c) ==
  IF \E i \in 1..Len(AsciiLow) : AsciiLow[i] = c
  THEN 31 + (CHOOSE i \in 1..Len(AsciiLow) : AsciiLow[i] = c)
  ELSE 96 + (CHOOSE i \in 1..Len(AsciiHigh) : AsciiHigh[i] = c)

\* The text of a sequence of printable ASCII characters.
Chars(s) == [i \in 1..Len(s) |-> ord(s[i])]

Min(a, b) == IF a < b THEN a ELSE b

Max(a, b) == IF a > b THEN a ELSE b

\* The characters the handlers look for.
Dollar == ord("$")

Underscore == ord("_")

PlusSign == ord("+")

MinusSign == ord("-")

Point == ord(".")

SmallE == ord("e")

CapitalE == ord("E")

Space == ord(" ")

Zero == ord("0")

QuestionMark == ord("?")

\* The zero of every run of Unicode decimal digits (category Nd); the ten
\* digits of a run are consecutive code points.  48 is ASCII '0'.
DecimalZeros == {
  48, 1632, 1776, 1984, 2406, 2534, 2662, 2790, 2918, 3046, 3174, 3302,
  3430, 3558, 3664, 3792, 3872, 4160, 4240, 6112, 6160, 6470, 6608, 6784,
  6800, 6992, 7088, 7232, 7248, 42528, 43216, 43264, 43472, 43504, 43600,
  44016, 65296, 66720, 68912, 69734, 69872, 69942, 70096, 70384, 70736,
  70864, 71248, 71360, 71472, 71904, 72016, 72784, 73040, 73120, 92768,
  92864, 93008, 120782, 120792, 120802, 120812, 120822, 123200, 123632,
  125264, 130032 }

IsDigit(c) == \E z \in DecimalZeros : z <= c /\ c <= z + 9

DigitVal(c) == c - (CHOOSE z \in DecimalZeros : z <= c /\ c <= z + 9)

\* The characters for which str.isspace() holds.
Whitespace == {
  9, 10, 11, 12, 13, 28, 29, 30, 31, 32, 133, 160, 5760, 8192, 8193, 8194,
  8195, 8196, 8197, 8198, 8199, 8200, 8201, 8202, 8232, 8233, 8239, 8287,
  12288 }

\* ASCII lower case, as the comparison with 'inf' and 'nan' uses it.
Lower(c) == IF 65 <= c /\ c <= 90 THEN c + 32 ELSE c

LowerSeq(s) == [i \in 1..Len(s) |-> Lower(s[i])]

\* str.replace('$$', ''): the occurrences are taken left to right and do
\* not overlap, so of a run of n characters '$' the last one stays when n is
\* odd and none stays when n is even.
RemoveMarker(s) ==
  LET Before(i) ==
        LET J == {j \in 1..(i - 1) : s[j] # Dollar}
        IN i - 1 - (IF J = {} THEN 0 ELSE CHOOSE j \in J : \A k \in J : k <= j)
      Kept(i) ==
        \/ s[i] # Dollar
        \/ Before(i) % 2 = 0 /\ (i = Len(s) \/ s[i + 1] # Dollar)
      marked == [i \in 1..Len(s) |-> IF Kept(i) THEN s[i] ELSE 0 - 1]
  IN SelectSeq(marked, LAMBDA c : c >= 0)

\* s without its leading and without its trailing characters of cs.
LStripOf(s, cs) ==
  LET I == {i \in 1..Len(s) : s[i] \notin cs}
  IN IF I = {} THEN <<>>
     ELSE SubSeq(s, CHOOSE i \in I : \A k \in I : i <= k, Len(s))

RStripOf(s, cs) ==
  LET I == {i \in 1..Len(s) : s[i] \notin cs}
  IN IF I = {} THEN <<>>
     ELSE SubSeq(s, 1, CHOOSE i \in I : \A k \in I : k <= i)

\* str.strip(): leading and trailing whitespace removed.
LStrip(s) == LStripOf(s, Whitespace)

RStrip(s) == RStripOf(s, Whitespace)

Strip(s) == RStrip(LStrip(s))

Cleaned(s) == Strip(RemoveMarker(s))

(***************************************************************************)
(* Float values.  digits is the sequence of decimal digits of the integer  *)
(* m, without leading and trailing zeros (empty for zero); the value       *)
(* denoted is the double nearest to (-1)^neg * m * 10^exp.                 *)
(***************************************************************************)
NullV == [kind |-> "null", neg |-> FALSE, digits |-> <<>>, exp |-> 0]

NaNV == [kind |-> "nan", neg |-> FALSE, digits |-> <<>>, exp |-> 0]

InfV(neg) == [kind |-> "inf", neg |-> neg, digits |-> <<>>, exp |-> 0]

\* Index of the first character of s in the set cs, 0 when there is none.
FirstIndex(s, cs) ==
  IF \E i \in 1..Len(s) : s[i] \in cs
  THEN CHOOSE i \in 1..Len(s) : s[i] \in cs /\ \A j \in 1..(i - 1) : s[j] \notin cs
  ELSE 0

\* Index of the last character of s in the set cs, 0 when there is none.
LastIndex(s, cs) ==
  IF \E i \in 1..Len(s) : s[i] \in cs
  THEN CHOOSE i \in 1..Len(s) :
         s[i] \in cs /\ \A j \in (i + 1)..Len(s) : s[j] \notin cs
  ELSE 0

\* The decimal ds * 10^exp in normal form.
FiniteV(neg, ds, exp) ==
  LET lo == FirstIndex(ds, 1..9)
      hi == LastIndex(ds, 1..9)
  IN IF lo = 0
     THEN [kind |-> "finite", neg |-> neg, digits |-> <<>>, exp |-> 0]
     ELSE [kind |-> "finite", neg |-> neg, digits |-> SubSeq(ds, lo, hi),
           exp |-> exp + (Len(ds) - hi)]

IsZero(v) == v.kind = "finite" /\ v.digits = <<>>

\* Decimal position of the leading digit of a non-zero finite value.
LeadPos(ds, exp) == exp + Len(ds) - 1

\* 0.a1a2... < 0.b1b2... for digit sequences a and b.
DigitsLess(a, b) ==
  LET at(x, i) == IF i <= Len(x) THEN x[i] ELSE 0
      n == IF Len(a) > Len(b) THEN Len(a) ELSE Len(b)
  IN \E i \in 1..n :
       /\ at(a, i) < at(b, i)
       /\ \A j \in 1..(i - 1) : at(a, j) = at(b, j)

\* The digits of 2^1024 - 2^970, half way between the largest double and
\* 2^1024: a decimal at or above it rounds to an infinity.
OverflowDigits == <<
  1, 7, 9, 7, 6, 9, 3, 1, 3, 4, 8, 6, 2, 3, 1, 5, 8, 0, 7, 9, 3, 7, 2, 8, 9,
  7, 1, 4, 0, 5, 3, 0, 3, 4, 1, 5, 0, 7, 9, 9, 3, 4, 1, 3, 2, 7, 1, 0, 0, 3,
  7, 8, 2, 6, 9, 3, 6, 1, 7, 3, 7, 7, 8, 9, 8, 0, 4, 4, 4, 9, 6, 8, 2, 9, 2,
  7, 6, 4, 7, 5, 0, 9, 4, 6, 6, 4, 9, 0, 1, 7, 9, 7, 7, 5, 8, 7, 2, 0, 7, 0,
  9, 6, 3, 3, 0, 2, 8, 6, 4, 1, 6, 6, 9, 2, 8, 8, 7, 9, 1, 0, 9, 4, 6, 5, 5,
  5, 5, 4, 7, 8, 5, 1, 9, 4, 0, 4, 0, 2, 6, 3, 0, 6, 5, 7, 4, 8, 8, 6, 7, 1,
  5, 0, 5, 8, 2, 0, 6, 8, 1, 9, 0, 8, 9, 0, 2, 0, 0, 0, 7, 0, 8, 3, 8, 3, 6,
  7, 6, 2, 7, 3, 8, 5, 4, 8, 4, 5, 8, 1, 7, 7, 1, 1, 5, 3, 1, 7, 6, 4, 4, 7,
  5, 7, 3, 0, 2, 7, 0, 0, 6, 9, 8, 5, 5, 5, 7, 1, 3, 6, 6, 9, 5, 9, 6, 2, 2,
  8, 4, 2, 9, 1, 4, 8, 1, 9, 8, 6, 0, 8, 3, 4, 9, 3, 6, 4, 7, 5, 2, 9, 2, 7,
  1, 9, 0, 7, 4, 1, 6, 8, 4, 4, 4, 3, 6, 5, 5, 1, 0, 7, 0, 4, 3, 4, 2, 7, 1,
  1, 5, 5, 9, 6, 9, 9, 5, 0, 8, 0, 9, 3, 0, 4, 2, 8, 8, 0, 1, 7, 7, 9, 0, 4,
  1, 7, 4, 4, 9, 7, 7, 9, 2 >>

OverflowPos == 308

\* The digits of 2^-1075, half of the smallest subnormal: a decimal at or
\* below it rounds to zero.
UnderflowDigits == <<
  2, 4, 7, 0, 3, 2, 8, 2, 2, 9, 2, 0, 6, 2, 3, 2, 7, 2, 0, 8, 8, 2, 8, 4, 3,
  9, 6, 4, 3, 4, 1, 1, 0, 6, 8, 6, 1, 8, 2, 5, 2, 9, 9, 0, 1, 3, 0, 7, 1, 6,
  2, 3, 8, 2, 2, 1, 2, 7, 9, 2, 8, 4, 1, 2, 5, 0, 3, 3, 7, 7, 5, 3, 6, 3, 5,
  1, 0, 4, 3, 7, 5, 9, 3, 2, 6, 4, 9, 9, 1, 8, 1, 8, 0, 8, 1, 7, 9, 9, 6, 1,
  8, 9, 8, 9, 8, 2, 8, 2, 3, 4, 7, 7, 2, 2, 8, 5, 8, 8, 6, 5, 4, 6, 3, 3, 2,
  8, 3, 5, 5, 1, 7, 7, 9, 6, 9, 8, 9, 8, 1, 9, 9, 3, 8, 7, 3, 9, 8, 0, 0, 5,
  3, 9, 0, 9, 3, 9, 0, 6, 3, 1, 5, 0, 3, 5, 6, 5, 9, 5, 1, 5, 5, 7, 0, 2, 2,
  6, 3, 9, 2, 2, 9, 0, 8, 5, 8, 3, 9, 2, 4, 4, 9, 1, 0, 5, 1, 8, 4, 4, 3, 5,
  9, 3, 1, 8, 0, 2, 8, 4, 9, 9, 3, 6, 5, 3, 6, 1, 5, 2, 5, 0, 0, 3, 1, 9, 3,
  7, 0, 4, 5, 7, 6, 7, 8, 2, 4, 9, 2, 1, 9, 3, 6, 5, 6, 2, 3, 6, 6, 9, 8, 6,
  3, 6, 5, 8, 4, 8, 0, 7, 5, 7, 0, 0, 1, 5, 8, 5, 7, 6, 9, 2, 6, 9, 9, 0, 3,
  7, 0, 6, 3, 1, 1, 9, 2, 8, 2, 7, 9, 5, 5, 8, 5, 5, 1, 3, 3, 2, 9, 2, 7, 8,
  3, 4, 3, 3, 8, 4, 0, 9, 3, 5, 1, 9, 7, 8, 0, 1, 5, 5, 3, 1, 2, 4, 6, 5, 9,
  7, 2, 6, 3, 5, 7, 9, 5, 7, 4, 6, 2, 2, 7, 6, 6, 4, 6, 5, 2, 7, 2, 8, 2, 7,
  2, 2, 0, 0, 5, 6, 3, 7, 4, 0, 0, 6, 4, 8, 5, 4, 9, 9, 9, 7, 7, 0, 9, 6, 5,
  9, 9, 4, 7, 0, 4, 5, 4, 0, 2, 0, 8, 2, 8, 1, 6, 6, 2, 2, 6, 2, 3, 7, 8, 5,
  7, 3, 9, 3, 4, 5, 0, 7, 3, 6, 3, 3, 9, 0, 0, 7, 9, 6, 7, 7, 6, 1, 9, 3, 0,
  5, 7, 7, 5, 0, 6, 7, 4, 0, 1, 7, 6, 3, 2, 4, 6, 7, 3, 6, 0, 0, 9, 6, 8, 9,
  5, 1, 3, 4, 0, 5, 3, 5, 5, 3, 7, 4, 5, 8, 5, 1, 6, 6, 6, 1, 1, 3, 4, 2, 2,
  3, 7, 6, 6, 6, 7, 8, 6, 0, 4, 1, 6, 2, 1, 5, 9, 6, 8, 0, 4, 6, 1, 9, 1, 4,
  4, 6, 7, 2, 9, 1, 8, 4, 0, 3, 0, 0, 5, 3, 0, 0, 5, 7, 5, 3, 0, 8, 4, 9, 0,
  4, 8, 7, 6, 5, 3, 9, 1, 7, 1, 1, 3, 8, 6, 5, 9, 1, 6, 4, 6, 2, 3, 9, 5, 2,
  4, 9, 1, 2, 6, 2, 3, 6, 5, 3, 8, 8, 1, 8, 7, 9, 6, 3, 6, 2, 3, 9, 3, 7, 3,
  2, 8, 0, 4, 2, 3, 8, 9, 1, 0, 1, 8, 6, 7, 2, 3, 4, 8, 4, 9, 7, 6, 6, 8, 2,
  3, 5, 0, 8, 9, 8, 6, 3, 3, 8, 8, 5, 8, 7, 9, 2, 5, 6, 2, 8, 3, 0, 2, 7, 5,
  5, 9, 9, 5, 6, 5, 7, 5, 2, 4, 4, 5, 5, 5, 0, 7, 2, 5, 5, 1, 8, 9, 3, 1, 3,
  6, 9, 0, 8, 3, 6, 2, 5, 4, 7, 7, 9, 1, 8, 6, 9, 4, 8, 6, 6, 7, 9, 9, 4, 9,
  6, 8, 3, 2, 4, 0, 4, 9, 7, 0, 5, 8, 2, 1, 0, 2, 8, 5, 1, 3, 1, 8, 5, 4, 5,
  1, 3, 9, 6, 2, 1, 3, 8, 3, 7, 7, 2, 2, 8, 2, 6, 1, 4, 5, 4, 3, 7, 6, 9, 3,
  4, 1, 2, 5, 3, 2, 0, 9, 8, 5, 9, 1, 3, 2, 7, 6, 6, 7, 2, 3, 6, 3, 2, 8, 1,
  2, 5 >>

UnderflowPos == 0 - 324

\* The digits of the integer after the one with digits ds.
RECURSIVE Increment(_)
Increment(ds) ==
  IF Len(ds) = 0 THEN <<1>>
  ELSE IF ds[Len(ds)] < 9
       THEN SubSeq(ds, 1, Len(ds) - 1) \o <<ds[Len(ds)] + 1>>
       ELSE Increment(SubSeq(ds, 1, Len(ds) - 1)) \o <<0>>

(***************************************************************************)
(* Naturals of any size, for the rounding of float(): a sequence of limbs  *)
(* in base 1000, the least significant first, without a zero limb at the   *)
(* top.                                                                    *)
(***************************************************************************)
Base == 1000

BigOne == <<1>>

\* 2^52, 2^53 and 2^54.
Two52 == <<496, 370, 627, 599, 503, 4>>

Two53 == <<992, 740, 254, 199, 7, 9>>

Two54 == <<984, 481, 509, 398, 14, 18>>

\* The steps of a long computation, taken one after the other: the value
\* is that of the last step.
Steps(s) == s[Len(s)]

\* Drop the zero limbs at the top.
Trim(a) ==
  LET hi == CHOOSE i \in 0..Len(a) :
              /\ i = 0 \/ a[i] # 0
              /\ \A j \in (i + 1)..Len(a) : a[j] = 0
  IN SubSeq(a, 1, hi)

\* One pass of carries: each limb keeps its low part and takes the high
\* part of the limb below.
CarryPass(a) ==
  SubSeq([k \in 1..(Len(a) + 1) |->
            (IF k <= Len(a) THEN a[k] % Base ELSE 0)
              + (IF k > 1 THEN a[k - 1] \div Base ELSE 0)], 1, Len(a) + 1)

\* What the upper limbs decide, and what the lower limbs decide when the
\* upper ones hand it on.
Decided(top, below) == IF top # "pass" THEN top ELSE below

\* Limbs of at most Base: whether the limbs lo..hi hand a carry upwards
\* ("yes"), do not ("no"), or hand on the carry they receive ("pass").
RECURSIVE CarryFrom(_, _, _)
CarryFrom(a, lo, hi) ==
  CASE lo > hi -> "pass"
    [] lo = hi -> (CASE a[lo] >= Base -> "yes"
                     [] a[lo] = Base - 1 -> "pass"
                     [] OTHER -> "no")
    [] OTHER -> Decided(CarryFrom(a, ((lo + hi) \div 2) + 1, hi),
                        CarryFrom(a, lo, (lo + hi) \div 2))

\* The carry into limb k.
CarryIn(a, k) ==
  CASE k = 1 -> FALSE
    [] a[k - 1] >= Base -> TRUE
    [] a[k - 1] < Base - 1 -> FALSE
    [] OTHER -> CarryFrom(a, 1, k - 2) = "yes"

Settle(a) ==
  Trim(SubSeq([k \in 1..(Len(a) + 1) |->
                 ((IF k <= Len(a) THEN a[k] ELSE 0)
                    + (IF CarryIn(a, k) THEN 1 ELSE 0)) % Base],
              1, Len(a) + 1))

\* a * s for 0 <= s < Base.
MulSmall(a, s) ==
  Steps(<<a, Settle(CarryPass(CarryPass(
                SubSeq([k \in 1..Len(a) |-> a[k] * s], 1, Len(a)))))>>)

BigAdd(a, b) ==
  Steps(<<a, b,
          Settle(CarryPass(
            SubSeq([k \in 1..Max(Len(a), Len(b)) |->
                      (IF k <= Len(a) THEN a[k] ELSE 0)
                        + (IF k <= Len(b) THEN b[k] ELSE 0)],
                   1, Max(Len(a), Len(b)))))>>)

\* Differences of limbs: whether the limbs lo..hi borrow from above
\* ("yes"), do not ("no"), or hand on the borrow made from them ("pass").
RECURSIVE BorrowFrom(_, _, _)
BorrowFrom(d, lo, hi) ==
  CASE lo > hi -> "pass"
    [] lo = hi -> (CASE d[lo] < 0 -> "yes" [] d[lo] = 0 -> "pass" [] OTHER -> "no")
    [] OTHER -> Decided(BorrowFrom(d, ((lo + hi) \div 2) + 1, hi),
                        BorrowFrom(d, lo, (lo + hi) \div 2))

\* The borrow from limb k.
BorrowIn(d, k) ==
  CASE k = 1 -> FALSE
    [] d[k - 1] < 0 -> TRUE
    [] d[k - 1] > 0 -> FALSE
    [] OTHER -> BorrowFrom(d, 1, k - 2) = "yes"

\* The limbs of the differences d, each borrow taken.
Borrowed(d) ==
  Trim(SubSeq([k \in 1..Len(d) |->
                 (d[k] - (IF BorrowIn(d, k) THEN 1 ELSE 0) + Base) % Base],
              1, Len(d)))

\* a - b for a >= b.
BigSub(a, b) ==
  Steps(<<a, b,
          Borrowed(SubSeq([k \in 1..Len(a) |->
                             a[k] - (IF k <= Len(b) THEN b[k] ELSE 0)],
                          1, Len(a)))>>)

BigLess(a, b) ==
  \/ Len(a) < Len(b)
  \/ /\ Len(a) = Len(b)
     /\ \E i \in 1..Len(a) :
          /\ a[i] < b[i]
          /\ \A j \in (i + 1)..Len(a) : a[j] = b[j]

\* a * Base^k.
ShiftLimbs(a, k) == IF a = <<>> THEN a ELSE [i \in 1..k |-> 0] \o a

\* a * 10^k.
Times10(a, k) == ShiftLimbs(MulSmall(a, <<1, 10, 100>>[(k % 3) + 1]), k \div 3)

\* The sum of a[i] * b[k + 1 - i] for i in lo..hi.
RECURSIVE ConvSum(_, _, _, _, _)
ConvSum(a, b, k, lo, hi) ==
  CASE lo > hi -> 0
    [] lo = hi -> a[lo] * b[k + 1 - lo]
    [] lo + 1 = hi -> a[lo] * b[k + 1 - lo] + a[hi] * b[k + 1 - hi]
    [] OTHER -> ConvSum(a, b, k, lo, (lo + hi) \div 2)
                  + ConvSum(a, b, k, ((lo + hi) \div 2) + 1, hi)

BigMul(a, b) ==
  Steps(<<a, b,
          Settle(CarryPass(CarryPass(CarryPass(
            SubSeq([k \in 1..(Len(a) + Len(b)) |->
                      ConvSum(a, b, k, Max(k + 1 - Len(b), 1), Min(k, Len(a)))],
                   1, Len(a) + Len(b))))))>>)

Square(a) == BigMul(a, a)

\* s^k for 0 < s < Base.
RECURSIVE BigPow(_, _)
BigPow(s, k) ==
  IF k = 0 THEN BigOne
  ELSE IF k % 2 = 1 THEN MulSmall(Square(BigPow(s, k \div 2)), s)
  ELSE Square(BigPow(s, k \div 2))

\* a * s^k for 0 < s < Base.
TimesPow(a, s, k) == IF k = 0 THEN a ELSE BigMul(a, BigPow(s, k))

\* The natural with the decimal digits ds, and the decimal digits of a
\* natural (with zeros in front).
FromDigits(ds) ==
  LET n == Len(ds)
      at(i) == IF i >= 1 THEN ds[i] ELSE 0
  IN Trim(SubSeq([j \in 1..((n + 2) \div 3) |->
                    at(n - 3 * j + 1) * 100 + at(n - 3 * j + 2) * 10
                      + at(n - 3 * j + 3)], 1, (n + 2) \div 3))

BigDigits(a) ==
  LET n == Len(a)
      limb(i) == a[n - ((i - 1) \div 3)]
  IN SubSeq([i \in 1..(3 * n) |->
               IF (i - 1) % 3 = 0 THEN limb(i) \div 100
               ELSE IF (i - 1) % 3 = 1 THEN (limb(i) \div 10) % 10
               ELSE limb(i) % 10], 1, 3 * n)

\* One limb of a quotient: the largest c below Base with c * b <= r, found
\* bit by bit from the bit of weight w down, and what is left of r.
RECURSIVE QuotBits(_, _, _, _)
QuotBits(r, b, c, w) ==
  IF w = 0 THEN c
  ELSE Steps(<<c, QuotBits(r, b,
                           IF c + w >= Base \/ BigLess(r, MulSmall(b, c + w))
                           THEN c ELSE c + w,
                           w \div 2)>>)

Remains(r, b, c) == [c |-> c, r |-> BigSub(r, MulSmall(b, c))]

QuotLimb(r, b) ==
  IF BigLess(r, b) THEN [c |-> 0, r |-> r]
  ELSE Remains(r, b, QuotBits(r, b, 0, 512))

\* Quotient and remainder of r by b, the quotient below Base^(k + 1): qs
\* holds the limbs of the quotient above limb k.
RECURSIVE DivLimbs(_, _, _, _)
DivStep(s, b, k, qs) == Steps(<<s, DivLimbs(s.r, b, k - 1, <<s.c>> \o qs)>>)

DivLimbs(r, b, k, qs) ==
  IF k < 0 THEN [q |-> Trim(qs), r |-> r]
  ELSE DivStep(QuotLimb(r, ShiftLimbs(b, k)), b, k, qs)

\* Quotient and remainder of a by b, the quotient below Base^7.
BigDivMod(a, b) == DivLimbs(a, b, 6, <<>>)

\* The remainder of the limbs k and above of a by s, and a divided by s,
\* for 0 < s < Base and a below Base^7.
RECURSIVE RemAbove(_, _, _)
RemAbove(a, s, k) ==
  IF k > Len(a) THEN 0 ELSE (RemAbove(a, s, k + 1) * Base + a[k]) % s

DivSmall(a, s) ==
  [q |-> Trim([k \in 1..Len(a) |-> (RemAbove(a, s, k + 1) * Base + a[k]) \div s]),
   r |-> RemAbove(a, s, 1)]

(***************************************************************************)
(* The IEEE double nearest to a decimal, ties to even, and its repr(): the *)
(* shortest decimal that rounds to it.                                     *)
(***************************************************************************)
Pow2Small == <<1, 2, 4, 8, 16, 32, 64>>

\* For a decimal with leading digit at position p, a binary exponent e0
\* with 2^53 <= decimal / 2^e0 < 2^59, and at least -1075.
LowExponent(p) == Max(((p * 3321928) \div 1000000) - 53, 0 - 1074) - 1

\* The bits t that the quotient quot, from 2^53 to below 2^59, has above 53.
ExtraBits(quot) ==
  CHOOSE k \in 1..6 :
    /\ BigLess(quot, MulSmall(Two54, Pow2Small[k]))
    /\ \A i \in 1..(k - 1) : ~BigLess(quot, MulSmall(Two54, Pow2Small[i]))

\* Round to nearest, ties to even: s is the quotient and remainder by
\* twice half, sticky tells that more was cut off below.
RoundHalfEven(s, half, sticky) ==
  IF \/ s.r > half
     \/ s.r = half /\ (sticky \/ (s.q # <<>> /\ s.q[1] % 2 = 1))
  THEN BigAdd(s.q, BigOne) ELSE s.q

\* A mantissa rounded up to 2^53 is 2^52 with the next exponent.
Mantissa(m, e) ==
  IF BigLess(m, Two53) THEN [m |-> m, e |-> e] ELSE [m |-> Two52, e |-> e + 1]

RoundedAt(d, e0, t) ==
  Mantissa(RoundHalfEven(DivSmall(d.q, Pow2Small[t + 1]), Pow2Small[t],
                         d.r # <<>>),
           e0 + t)

Rounded(d, e0) == Steps(<<d, RoundedAt(d, e0, ExtraBits(d.q))>>)

ScaledBy(v, e0) ==
  Rounded(BigDivMod(TimesPow(Times10(FromDigits(v.digits), Max(v.exp, 0)),
                             2, Max(0 - e0, 0)),
                    TimesPow(Times10(BigOne, Max(0 - v.exp, 0)),
                             2, Max(e0, 0))),
          e0)

\* v > 0 in normal form, between the underflow and the overflow threshold:
\* the double m * 2^e nearest to it, m < 2^53, e >= -1074.
NearestDouble(v) == ScaledBy(v, LowExponent(LeadPos(v.digits, v.exp)))

\* a < b, a <= b for decimals > 0 in normal form.
DecLess(a, b) ==
  \/ LeadPos(a.digits, a.exp) < LeadPos(b.digits, b.exp)
  \/ /\ LeadPos(a.digits, a.exp) = LeadPos(b.digits, b.exp)
     /\ DigitsLess(a.digits, b.digits)

DecLeq(a, b) == ~DecLess(b, a)

\* The longest repr() of a double.
ReprDigits == 17

\* The decimals of n digits next to d, for n below the digits of d: the one
\* below ("down"), the one above ("above"), and which of them is nearer
\* (for a tie, the one with the even last digit).
Neighbours(d, n) ==
  [down   |-> FiniteV(FALSE, SubSeq(d.digits, 1, n), d.exp + Len(d.digits) - n),
   above  |-> FiniteV(FALSE, Increment(SubSeq(d.digits, 1, n)),
                      d.exp + Len(d.digits) - n),
   nearer |-> IF \/ d.digits[n + 1] > 5
                 \/ /\ d.digits[n + 1] = 5
                    /\ \E i \in (n + 2)..Len(d.digits) : d.digits[i] # 0
              THEN "above"
              ELSE IF d.digits[n + 1] < 5 THEN "down"
              ELSE IF d.digits[n] % 2 = 0 THEN "down" ELSE "above"]

\* a <= b when closed, a < b otherwise.
InOrder(a, b, closed) == IF closed THEN DecLeq(a, b) ELSE DecLess(a, b)

\* Of the neighbours c of d that lie between lo and hi, the nearer one.
Nearest(c, lo, hi, closed) ==
  IF InOrder(lo, c.down, closed) /\ InOrder(c.above, hi, closed)
  THEN (IF c.nearer = "down" THEN c.down ELSE c.above)
  ELSE IF InOrder(lo, c.down, closed) THEN c.down
  ELSE c.above

\* The numbers of digits, below those of d, with which a decimal lies
\* between lo and hi.
Lengths(d, lo, hi, closed) ==
  {n \in 1..ReprDigits :
     /\ n < Len(d.digits)
     /\ \/ InOrder(lo, Neighbours(d, n).down, closed)
        \/ InOrder(Neighbours(d, n).above, hi, closed)}

ShortestOf(d, lo, hi, closed, ns) ==
  IF ns = {} THEN d
  ELSE Nearest(Neighbours(d, CHOOSE n \in ns : \A k \in ns : n <= k),
               lo, hi, closed)

\* repr() of the double d > 0 that the decimals between lo and hi round
\* to (lo and hi too when closed): of these decimals, one of the fewest
\* digits, the nearest to d.
Shortest(d, lo, hi, closed) ==
  Steps(<<d, lo, hi, ShortestOf(d, lo, hi, closed, Lengths(d, lo, hi, closed))>>)

\* The decimal of the natural a in units of 10^g for g < 0, of 1 otherwise.
Dec(a, g) == FiniteV(FALSE, BigDigits(a), IF g >= 0 THEN 0 ELSE g)

\* a in units of 2^g: a * 2^g for g >= 0, and a * 5^(-g) in units of
\* 10^g for g < 0.
Scale(a, g) == TimesPow(a, IF g >= 0 THEN 2 ELSE 5, IF g >= 0 THEN g ELSE 0 - g)

\* The double x = m * 2^e > 0 and the two decimals half way to its
\* neighbours, in units of 2^(e - 2): unit is 1 and mid is x.
Halfway(x, unit, mid) ==
  Steps(<<unit, mid,
          Shortest(Dec(mid, x.e - 2),
                   Dec(BigSub(mid, IF x.m = Two52 /\ x.e > 0 - 1074
                                   THEN unit ELSE MulSmall(unit, 2)), x.e - 2),
                   Dec(BigAdd(mid, MulSmall(unit, 2)), x.e - 2),
                   x.m[1] % 2 = 0)>>)

Repr(x) ==
  Steps(<<x, Halfway(x, Scale(BigOne, x.e - 2), Scale(MulSmall(x.m, 4), x.e - 2))>>)
\* A decimal of at most 15 digits at or above 1e-307 is the repr() of the
\* double nearest to it.
DoubleDigits == 15

NormalPos == 0 - 307

Signed(neg, r) == [r EXCEPT !.neg = neg]

\* The double nearest to the decimal v in normal form, as repr() writes it.
RoundDecimal(v) ==
  LET p == LeadPos(v.digits, v.exp)
  IN IF IsZero(v) THEN v
     ELSE IF \/ p > OverflowPos
             \/ p = OverflowPos /\ ~DigitsLess(v.digits, OverflowDigits)
     THEN InfV(v.neg)
     ELSE IF \/ p < UnderflowPos
             \/ p = UnderflowPos /\ ~DigitsLess(UnderflowDigits, v.digits)
     THEN FiniteV(v.neg, <<>>, 0)
     ELSE IF Len(v.digits) <= DoubleDigits /\ p >= NormalPos THEN v
     ELSE Signed(v.neg, Repr(NearestDouble(Signed(FALSE, v))))

\* Round a decimal to an IEEE double: float() of the numeral, as repr()
\* writes it.
ToDouble(neg, ds, exp) == RoundDecimal(FiniteV(neg, ds, exp))

(***************************************************************************)
(* float(text): Python's float constructor on a str.                       *)
(***************************************************************************)
ValueError == [kind |-> "ValueError", neg |-> FALSE, digits |-> <<>>, exp |-> 0]

\* Every non-ASCII character is replaced before the text is read: a space
\* for whitespace, the ASCII digit for a decimal digit, '?' for any other.
ToAscii(c) ==
  IF c <= 127 THEN c
  ELSE IF c \in Whitespace THEN Space
  ELSE IF IsDigit(c) THEN Zero + DigitVal(c)
  ELSE QuestionMark

\* The whitespace float() skips at both ends: \t \n \v \f \r and space.
FloatSpace == (9..13) \cup {32}

IsSign(c) == c = PlusSign \/ c = MinusSign

AllDigits(s) == \A i \in 1..Len(s) : IsDigit(s[i])

DigitValues(s) == [i \in 1..Len(s) |-> DigitVal(s[i])]

\* An underscore is allowed only between two digits.
UnderscoresOK(s) ==
  \A i \in 1..Len(s) :
    s[i] = Underscore => /\ i > 1 /\ IsDigit(s[i - 1])
                       /\ i < Len(s) /\ IsDigit(s[i + 1])

DropUnderscores(s) == SelectSeq(s, LAMBDA c : c # Underscore)

\* An exponent at or beyond ExponentCap puts every non-zero decimal beyond
\* the doubles, whatever its digits.
ExponentCap == 100000000

\* min(int(s), ExponentCap) for a digit string s.
RECURSIVE CappedNat(_)
CappedNat(s) ==
  IF Len(s) = 0 THEN 0
  ELSE LET hi == CappedNat(SubSeq(s, 1, Len(s) - 1))
           n  == hi * 10 + DigitVal(s[Len(s)])
       IN IF hi >= ExponentCap \/ n >= ExponentCap THEN ExponentCap ELSE n

NanName == Chars(<<"n", "a", "n">>)

SpecialNames == {Chars(<<"i", "n", "f">>),
                 Chars(<<"i", "n", "f", "i", "n", "i", "t", "y">>),
                 NanName}

\* The unsigned decimal literal: digits [. digits] [e [sign] digits].
DecimalLiteral(neg, body) ==
  LET ePos  == FirstIndex(body, {SmallE, CapitalE})
      mPart == IF ePos = 0 THEN body ELSE SubSeq(body, 1, ePos - 1)
      ePart == IF ePos = 0 THEN <<>> ELSE SubSeq(body, ePos + 1, Len(body))
      dPos  == FirstIndex(mPart, {Point})
      ip    == IF dPos = 0 THEN mPart ELSE SubSeq(mPart, 1, dPos - 1)
      fp    == IF dPos = 0 THEN <<>> ELSE SubSeq(mPart, dPos + 1, Len(mPart))
      eNeg  == Len(ePart) > 0 /\ ePart[1] = MinusSign
      eDig  == IF Len(ePart) > 0 /\ IsSign(ePart[1]) THEN Tail(ePart) ELSE ePart
      eVal  == IF eNeg THEN 0 - CappedNat(eDig) ELSE CappedNat(eDig)
  IN IF /\ AllDigits(ip) /\ AllDigits(fp) /\ Len(ip) + Len(fp) >= 1
        /\ (ePos # 0 => Len(eDig) >= 1 /\ AllDigits(eDig))
     THEN ToDouble(neg, DigitValues(ip \o fp), eVal - Len(fp))
     ELSE ValueError

float(text) ==
  LET ascii == [i \in 1..Len(text) |-> ToAscii(text[i])]
      s     == RStripOf(LStripOf(ascii, FloatSpace), FloatSpace)
  IN IF ~UnderscoresOK(s) THEN ValueError
     ELSE LET t    == DropUnderscores(s)
              neg  == Len(t) > 0 /\ t[1] = MinusSign
              body == IF Len(t) > 0 /\ IsSign(t[1]) THEN Tail(t) ELSE t
          IN IF LowerSeq(body) \in SpecialNames
             THEN IF LowerSeq(body) = NanName THEN NaNV ELSE InfV(neg)
             ELSE DecimalLiteral(neg, body)

(***************************************************************************)
(* parse_float(value).  A JSON value is [kind, text]: kind "absent" (the   *)
(* key is missing or null), "number" (a JSON number, boolean, list or      *)
(* object: not a str) or "text".                                           *)
(***************************************************************************)
Absent == [kind |-> "absent", text |-> <<>>]

JsonNumber == [kind |-> "number", text |-> <<>>]

Text(s) == [kind |-> "text", text |-> s]

parse_float(value) ==
  IF value.kind # "text" THEN NullV
  ELSE LET cleaned_value == Cleaned(value.text)
       IN IF Len(cleaned_value) = 0 THEN NullV
          ELSE LET f == float(cleaned_value)
               IN IF f = ValueError THEN NullV ELSE f

(***************************************************************************)
(* The upload payload and its normalization.                               *)
(***************************************************************************)
Channels == 1..9

Measurements == {"MassFlow", "Masstotal", "VolumeFlow", "Volumetotal",
                 "Temp", "Density"}

\* <<i, m>> is the key and the column FT<i><m>.
FieldNames == Channels \X Measurements

\* A device id as JSON carries it: t is "absent", "str" or "int", v its text.
NoDevice == [t |-> "absent", v |-> <<>>]

DevStr(s) == [t |-> "str", v |-> s]

DevInt(s) == [t |-> "int", v |-> s]

\* Python truthiness of data.get('deviceid'): None, '' and 0 are falsy.
Truthy(d) == \/ d.t = "str" /\ Len(d.v) > 0
             \/ d.t = "int" /\ d.v # <<Zero>>

\* dict.get(key): the value under the key, None when the key is missing.
Get(fields, key) == IF key \in DOMAIN fields THEN fields[key] ELSE Absent

\* Lines 94-150 of app.py and 157-164 of application.py.
Normalize(data) ==
  [deviceid |-> data.deviceid,
   fields   |-> [f \in FieldNames |-> parse_float(Get(data.fields, f))]]

(***************************************************************************)
(* The store: table FlowMeterData.                                         *)
(***************************************************************************)
DecimalScale == 4

DecimalIntDigits == 14

\* Conversion of a finite float to DECIMAL(18,4): four decimal places,
\* rounded half away from zero; a DECIMAL zero has no sign.
Round4(v) ==
  IF IsZero(v) THEN FiniteV(FALSE, <<>>, 0)
  ELSE IF v.kind # "finite" \/ v.exp >= 0 - DecimalScale THEN v
  ELSE LET k == (0 - DecimalScale) - v.exp
           n == Len(v.digits)
       IN IF k > n THEN FiniteV(FALSE, <<>>, 0)
          ELSE LET kept == SubSeq(v.digits, 1, n - k)
                   m    == IF v.digits[n - k + 1] >= 5 THEN Increment(kept)
                           ELSE kept
               IN FiniteV(v.neg /\ m # <<>>, m, 0 - DecimalScale)

\* A DECIMAL(18,4) column takes NULL and finite values below 10^14.
FitsDecimal(v) ==
  \/ v.kind = "null"
  \/ /\ v.kind = "finite"
     /\ LET r == Round4(v)
        IN IsZero(r) \/ LeadPos(r.digits, r.exp) < DecimalIntDigits

\* The length of the column DeviceId NVARCHAR(50) NOT NULL.
DeviceIdLength == 50

\* The columns Id and DeviceId, named like the measurement columns.
IdCol == <<0, "Id">>

DeviceIdCol == <<0, "DeviceId">>

\* str(uuid): the text of an identifier.
str(id) == [uuid |-> id]

\* uuid.uuid4() and NEWID(): an identifier none of the rows rs carries.
NewId(rs) ==
  CHOOSE n \in 1..(Len(rs) + 1) :
    /\ \A i \in 1..Len(rs) : rs[i].Id # n
    /\ \A m \in 1..(n - 1) : \E i \in 1..Len(rs) : rs[i].Id = m

\* INSERT INTO FlowMeterData (columns) VALUES (values): cols is the set of
\* bound columns, vals the bound values; a column left out takes its
\* DEFAULT (NEWID() for Id, GETUTCDATE() for CreatedAt) or NULL.  A bound
\* Id is the text of a uuid, which the UNIQUEIDENTIFIER column reads back.
\* newid and now are the defaults, taken when the statement runs; the row
\* joins the rows rs when the statement is committed.
InsertRow(rs, cols, vals, newid, now) ==
  Append(rs,
    [Id        |-> IF IdCol \in cols THEN vals.Id.uuid ELSE newid,
     DeviceId  |-> vals.DeviceId.v,
     fields    |-> [f \in FieldNames |->
                      IF f \in cols THEN Round4(vals.fields[f]) ELSE NullV],
     CreatedAt |-> now])

\* The statement fails when a bound value does not convert to its column:
\* a device id longer than the column, a measurement outside DECIMAL(18,4).
InsertAccepted(cols, vals) ==
  /\ Len(vals.DeviceId.v) <= DeviceIdLength
  /\ \A f \in FieldNames : f \in cols => FitsDecimal(vals.fields[f])

\* app.py 158-203: every column is bound, absent fields as NULL.
FixedColumns == {IdCol, DeviceIdCol} \cup FieldNames

\* The column list had the loop tested the truth of each value.
DynamicColumnsTruthy(parsed_data) ==
  {DeviceIdCol} \cup {f \in FieldNames :
                         /\ parsed_data.fields[f] # NullV
                         /\ ~IsZero(parsed_data.fields[f])}

\* application.py 171-190: DeviceId and the fields that are not None.
DynamicColumns(parsed_data) ==
  {DeviceIdCol} \cup {f \in FieldNames : parsed_data.fields[f] # NullV}

(***************************************************************************)
(* Time.  A datetime is a record of its fields; offset is the UTC offset    *)
(* of an aware datetime, Naive for a datetime without one.  The store      *)
(* clock counts seconds: second k is 2024-01-01 00:00:00 plus k seconds,   *)
(* and CreatedAt is its value at the insert.                               *)
(***************************************************************************)
Naive == [aware |-> FALSE, seconds |-> 0, microseconds |-> 0]

DateTime(year, month, day, hour, minute, second, microsecond, offset) ==
  [year |-> year, month |-> month, day |-> day, hour |-> hour,
   minute |-> minute, second |-> second, microsecond |-> microsecond,
   offset |-> offset]

\* The datetime the driver reads from a DATETIME2 column holding second k.
ClockTime(k) == DateTime(2024, 1, 1, 0, k \div 60, k % 60, 0, Naive)

Tens == <<1, 10, 100, 1000, 10000, 100000>>

Colon == ord(":")

Comma == ord(",")

CapitalT == ord("T")

CapitalW == ord("W")

CapitalZ == ord("Z")

Digit0 == ord("0")

Digit9 == ord("9")

\* '%0wd' % n.
Pad(n, w) ==
  SubSeq([i \in 1..w |-> Digit0 + ((n \div Tens[w - i + 1]) % 10)], 1, w)

\* datetime.isoformat() of a naive datetime: 'YYYY-MM-DDTHH:MM:SS', and
\* '.ffffff' after it when the microsecond is not 0.
isoformat(dt) ==
  Pad(dt.year, 4) \o <<MinusSign>> \o Pad(dt.month, 2) \o <<MinusSign>>
    \o Pad(dt.day, 2) \o <<CapitalT>> \o Pad(dt.hour, 2) \o <<Colon>>
    \o Pad(dt.minute, 2) \o <<Colon>> \o Pad(dt.second, 2)
    \o (IF dt.microsecond = 0 THEN <<>>
        ELSE <<Point>> \o Pad(dt.microsecond, 6))

\* text.replace(old, new) for a single character old.
replace(text, old, new) ==
  LET n     == Len(text)
      w     == Len(new)
      start == SubSeq([i \in 1..(n + 1) |->
                         i + ((w - 1)
                              * Cardinality({k \in 1..(i - 1) : text[k] = old}))],
                      1, n + 1)
      total == start[n + 1] - 1
      from  == SubSeq([j \in 1..total |->
                         CHOOSE i \in 1..n : start[i] <= j /\ j < start[i + 1]],
                      1, total)
  IN IF \A k \in 1..n : text[k] # old THEN text
     ELSE SubSeq([j \in 1..total |->
                    IF text[from[j]] = old THEN new[j - start[from[j]] + 1]
                    ELSE text[from[j]]], 1, total)

\* The character at position i of a C string (positions from 1), the
\* terminating NUL past its end.
At(s, i) == IF i >= 1 /\ i <= Len(s) THEN s[i] ELSE 0

is_digit(c) == c >= Digit0 /\ c <= Digit9

\* A character that takes more than one byte in UTF-8.
MultiByte(c) == c >= 128

IsSurrogate(c) == c >= 55296 /\ c <= 57343

\* parse_digits: the number of the n digits from position p on.
parse_digits(s, p, n) ==
  LET D(k) == IF k < n THEN (At(s, p + k) - Digit0) * Tens[n - k] ELSE 0
  IN IF \A k \in 0..(n - 1) : is_digit(At(s, p + k))
     THEN [ok |-> TRUE, val |-> D(0) + D(1) + D(2) + D(3) + D(4) + D(5)]
     ELSE [ok |-> FALSE, val |-> 0]

\* The proleptic Gregorian calendar of the datetime module.
is_leap(year) == year % 4 = 0 /\ (year % 100 # 0 \/ year % 400 = 0)

DaysInMonth == <<31, 28, 31, 30, 31, 30, 31, 31, 30, 31, 30, 31>>

DaysBeforeMonth == <<0, 31, 59, 90, 120, 151, 181, 212, 243, 273, 304, 334>>

days_in_month(year, month) ==
  IF month = 2 /\ is_leap(year) THEN 29 ELSE DaysInMonth[month]

days_before_month(year, month) ==
  DaysBeforeMonth[month] + (IF month > 2 /\ is_leap(year) THEN 1 ELSE 0)

days_before_year(year) ==
  LET y == year - 1
  IN ((y * 365) + (y \div 4) + (y \div 400)) - (y \div 100)

ymd_to_ord(year, month, day) ==
  days_before_year(year) + days_before_month(year, month) + day

\* Monday is 0.
weekday(year, month, day) == (ymd_to_ord(year, month, day) + 6) % 7

iso_week1_monday(year) ==
  LET first_day     == ymd_to_ord(year, 1, 1)
      first_weekday == (first_day + 6) % 7
      monday        == first_day - first_weekday
  IN IF first_weekday > 3 THEN monday + 7 ELSE monday

DaysIn400Years == 146097

DaysIn100Years == 36524

DaysIn4Years == 1461

ord_to_ymd(ordinal) ==
  LET n0   == (ordinal - 1) % DaysIn400Years
      n400 == (ordinal - 1) \div DaysIn400Years
      n100 == n0 \div DaysIn100Years
      n1a  == n0 % DaysIn100Years
      n4   == n1a \div DaysIn4Years
      n2a  == n1a % DaysIn4Years
      n1   == n2a \div 365
      n    == n2a % 365
      year == (n400 * 400) + 1 + (n100 * 100) + (n4 * 4) + n1
      leap == n1 = 3 /\ (n4 # 24 \/ n100 = 3)
      m0   == (n + 50) \div 32
      pre0 == DaysBeforeMonth[m0] + (IF m0 > 2 /\ leap THEN 1 ELSE 0)
      m    == IF pre0 > n THEN m0 - 1 ELSE m0
      pre  == IF pre0 > n THEN pre0 - days_in_month(year, m0 - 1) ELSE pre0
  IN IF n1 = 4 \/ n100 = 4
     THEN [year |-> year - 1, month |-> 12, day |-> 31]
     ELSE [year |-> year, month |-> m, day |-> (n - pre) + 1]

\* A parsed date: rv 0 and the fields, or a negative rv.
DateOf(rv, year, month, day) ==
  [rv |-> rv, year |-> year, month |-> month, day |-> day]

\* iso_to_ymd: the date of day iso_day of week iso_week of an ISO year.  A
\* year has week 53 when it starts on a Thursday, or on a Wednesday and is a
\* leap year.  No week of year 0 is a date: the conversion leaves it a month
\* below 1.
iso_to_ymd(iso_year, iso_week, iso_day) ==
  LET first_weekday == weekday(iso_year, 1, 1)
      has53 == first_weekday = 3 \/ (first_weekday = 2 /\ is_leap(iso_year))
      ymd   == ord_to_ymd(iso_week1_monday(iso_year)
                            + ((iso_week - 1) * 7) + (iso_day - 1))
  IN IF iso_year = 0 THEN DateOf(0, 1, 0, 0)
     ELSE IF iso_week <= 0 \/ iso_week > 53 \/ (iso_week = 53 /\ ~has53)
     THEN DateOf(0 - 5, 0, 0, 0)
     ELSE IF iso_day <= 0 \/ iso_day >= 8 THEN DateOf(0 - 6, 0, 0, 0)
     ELSE DateOf(0, ymd.year, ymd.month, ymd.day)

\* _sanitize_isoformat_str: a surrogate at the first of the positions 7, 8
\* and 10 (from 0) that holds one becomes 'T'.
sanitize_isoformat_str(s) ==
  LET cands == {k \in {8, 9, 11} :
                  /\ k <= Len(s) /\ IsSurrogate(s[k])
                  /\ \A j \in {8, 9, 11} : j < k => ~IsSurrogate(At(s, j))}
  IN IF cands = {} THEN s
     ELSE SubSeq([i \in 1..Len(s) |-> IF i \in cands THEN CapitalT ELSE s[i]],
                 1, Len(s))

\* _find_isoformat_datetime_separator: the number of characters of the
\* date, -1 when there is none.  The date is 'YYYY-MM-DD', 'YYYYMMDD',
\* 'YYYY-Www', 'YYYYWww', 'YYYY-Www-d' or 'YYYYWwwd'.
find_isoformat_datetime_separator(s) ==
  LET len == Len(s)
      idx == CHOOSE j \in 7..Max(7, len) :
               /\ j >= len \/ ~is_digit(At(s, j + 1))
               /\ \A k \in 7..(j - 1) : is_digit(At(s, k + 1))
  IN IF len = 7 THEN 7
     ELSE IF At(s, 5) = MinusSign
     THEN IF At(s, 6) = CapitalW
          THEN IF len < 8 THEN 0 - 1
               ELSE IF len > 8 /\ At(s, 9) = MinusSign
               THEN IF len = 9 THEN 0 - 1
                    ELSE IF len > 10 /\ is_digit(At(s, 11)) THEN 8
                    ELSE 10
               ELSE 8
          ELSE 10
     ELSE IF At(s, 5) = CapitalW
     THEN IF idx < 9 THEN idx
          ELSE IF idx % 2 = 0 THEN 7
          ELSE 8
     ELSE 8

\* parse_isoformat_date: the date in the first characters of s; len is the
\* place of the separator, which tells 'YYYYWww' from 'YYYYWwwd'.
parse_isoformat_date(s, len) ==
  LET year  == parse_digits(s, 1, 4)
      uses_separator == At(s, 5) = MinusSign
      p1    == IF uses_separator THEN 6 ELSE 5
      week  == parse_digits(s, p1 + 1, 2)
      p3    == p1 + 3
      p4    == IF uses_separator THEN p3 + 1 ELSE p3
      wday  == parse_digits(s, p4, 1)
      month == parse_digits(s, p1, 2)
      p5    == p1 + 2
      p6    == IF uses_separator THEN p5 + 1 ELSE p5
      day   == parse_digits(s, p6, 2)
  IN IF ~year.ok THEN DateOf(0 - 1, 0, 0, 0)
     ELSE IF At(s, p1) = CapitalW
     THEN IF ~week.ok THEN DateOf(0 - 3, 0, 0, 0)
          ELSE IF len < 0 \/ p3 - 1 < len
          THEN IF uses_separator /\ At(s, p3) # MinusSign
               THEN DateOf(0 - 2, 0, 0, 0)
               ELSE IF ~wday.ok THEN DateOf(0 - 4, 0, 0, 0)
               ELSE iso_to_ymd(year.val, week.val, wday.val)
          ELSE iso_to_ymd(year.val, week.val, 1)
     ELSE IF ~month.ok THEN DateOf(0 - 1, 0, 0, 0)
     ELSE IF uses_separator /\ At(s, p5) # MinusSign
     THEN DateOf(0 - 2, 0, 0, 0)
     ELSE IF ~day.ok THEN DateOf(0 - 1, 0, 0, 0)
     ELSE DateOf(0, year.val, month.val, day.val)

\* A parsed time: rv and the fields read so far, the others 0.
TimeOf(rv, vals, microsecond) ==
  [rv |-> rv,
   hour   |-> IF Len(vals) >= 1 THEN vals[1] ELSE 0,
   minute |-> IF Len(vals) >= 2 THEN vals[2] ELSE 0,
   second |-> IF Len(vals) >= 3 THEN vals[3] ELSE 0,
   microsecond |-> microsecond]

\* The fraction of parse_hh_mm_ss_ff: up to six digits from p on are the
\* microsecond, further digits are skipped; rv is 1 when the string does not
\* end there.
parse_ff(s, p, p_end, vals) ==
  LET len_remains == p_end - p
      to_parse    == IF len_remains >= 6 THEN 6 ELSE len_remains
      ff          == parse_digits(s, p, to_parse)
      stop        == CHOOSE j \in (p + to_parse)..(Len(s) + 1) :
                       /\ ~is_digit(At(s, j))
                       /\ \A k \in (p + to_parse)..(j - 1) : is_digit(At(s, k))
  IN IF ~ff.ok THEN TimeOf(0 - 3, <<>>, 0)
     ELSE TimeOf(IF At(s, stop) # 0 THEN 1 ELSE 0, vals,
                 ff.val * Tens[7 - to_parse])

\* parse_hh_mm_ss_ff: HH[:MM[:SS[.fff[fff]]]] or HH[MM[SS[.fff[fff]]]] from
\* p up to p_end; i counts the fields read.  A character of several bytes
\* never is the last before p_end.
RECURSIVE parse_hh_mm_ss_ff(_, _, _, _, _, _)
parse_hh_mm_ss_ff(s, p, p_end, i, sep, vals) ==
  LET field == parse_digits(s, p, 2)
      c     == At(s, p + 2)
      next  == p + 3
      has_separator == IF i = 0 THEN c = Colon ELSE sep
      vs    == Append(vals, field.val)
  IN IF ~field.ok THEN TimeOf(0 - 3, <<>>, 0)
     ELSE IF next >= p_end /\ ~MultiByte(c)
     THEN TimeOf(IF c # 0 THEN 1 ELSE 0, vs, 0)
     ELSE IF has_separator /\ c = Colon
     THEN IF i < 2
          THEN parse_hh_mm_ss_ff(s, next, p_end, i + 1, has_separator, vs)
          ELSE parse_ff(s, next, p_end, vs)
     ELSE IF c = Point \/ c = Comma THEN parse_ff(s, next, p_end, vs)
     ELSE IF ~has_separator
     THEN IF i < 2
          THEN parse_hh_mm_ss_ff(s, next - 1, p_end, i + 1, has_separator, vs)
          ELSE parse_ff(s, next - 1, p_end, vs)
     ELSE TimeOf(0 - 4, <<>>, 0)

\* parse_isoformat_time: the time from position p to the end of s, and the
\* offset after the first 'Z', '+' or '-'.  rv is 0 without an offset, 1
\* with one, negative for a text that is no time.
time_with_offset(t, tz, tzsign) ==
  [rv |-> IF tz.rv # 0 THEN 0 - 5 ELSE 1, time |-> t,
   offset |-> [aware |-> TRUE,
               seconds |-> tzsign * ((tz.hour * 3600) + (tz.minute * 60)
                                     + tz.second),
               microseconds |-> tzsign * tz.microsecond]]

\* The time t read before tzinfo_pos, and the offset after it.
time_and_offset(s, tzinfo_pos, t) ==
  IF t.rv < 0 THEN [rv |-> t.rv, time |-> t, offset |-> Naive]
  ELSE IF tzinfo_pos = Len(s) + 1
  THEN [rv |-> IF t.rv = 1 THEN 0 - 5 ELSE 0, time |-> t, offset |-> Naive]
  ELSE IF At(s, tzinfo_pos) = CapitalZ
  THEN [rv |-> IF At(s, tzinfo_pos + 1) # 0 THEN 0 - 5 ELSE 1,
        time |-> t, offset |-> [aware |-> TRUE, seconds |-> 0,
                                microseconds |-> 0]]
  ELSE time_with_offset(t,
                        parse_hh_mm_ss_ff(s, tzinfo_pos + 1, Len(s) + 1, 0,
                                          FALSE, <<>>),
                        IF At(s, tzinfo_pos) = MinusSign THEN 0 - 1 ELSE 1)

time_before(s, p, tzinfo_pos) ==
  time_and_offset(s, tzinfo_pos,
                  parse_hh_mm_ss_ff(s, p, tzinfo_pos, 0, FALSE, <<>>))

\* The first 'Z', '+' or '-' from p on; past the end when there is none.
find_tzinfo(s, p) ==
  LET marks == {j \in p..Len(s) : s[j] \in {CapitalZ, PlusSign, MinusSign}}
  IN IF marks # {} THEN CHOOSE j \in marks : \A k \in marks : j <= k
     ELSE Max(Len(s) + 1, p + 1)

parse_isoformat_time(s, p) == time_before(s, p, find_tzinfo(s, p))

\* check_date_args and check_time_args of new_datetime.
check_date_args(year, month, day) ==
  /\ year >= 1 /\ year <= 9999
  /\ month >= 1 /\ month <= 12
  /\ day >= 1 /\ day <= days_in_month(year, month)

check_time_args(hour, minute, second) ==
  hour <= 23 /\ minute <= 59 /\ second <= 59

\* new_timezone: an offset is strictly between -24 and 24 hours.
check_offset(offset) ==
  offset.seconds < 86400 /\ offset.seconds > 0 - 86400

\* tzinfo_from_isoformat_results: an offset of 0 seconds is UTC, whatever
\* its microseconds.
tzinfo_from_isoformat_results(rv, offset) ==
  IF rv = 1 /\ offset.seconds = 0
  THEN [aware |-> TRUE, seconds |-> 0, microseconds |-> 0]
  ELSE offset

\* ValueError, and the time of a text that is a date only.
BadDate == [ok |-> FALSE, dt |-> DateTime(0, 0, 0, 0, 0, 0, 0, Naive)]

NoTime == [rv |-> 0, time |-> TimeOf(0, <<>>, 0), offset |-> Naive]

\* new_datetime on what the date and the time parsers found.
new_datetime(date, t) ==
  IF date.rv # 0 \/ t.rv < 0 THEN BadDate
  ELSE IF ~check_date_args(date.year, date.month, date.day) THEN BadDate
  ELSE IF ~check_time_args(t.time.hour, t.time.minute, t.time.second)
  THEN BadDate
  ELSE IF ~check_offset(t.offset) THEN BadDate
  ELSE [ok |-> TRUE,
        dt |-> DateTime(date.year, date.month, date.day, t.time.hour,
                        t.time.minute, t.time.second, t.time.microsecond,
                        tzinfo_from_isoformat_results(t.rv, t.offset))]

\* The time after the separator at sep + 1, when there is one.
date_and_time(s, sep, date) ==
  new_datetime(date, IF date.rv = 0 /\ Len(s) > sep
                     THEN parse_isoformat_time(s, sep + 2) ELSE NoTime)

date_before(s, sep) == date_and_time(s, sep, parse_isoformat_date(s, sep))

from_sanitized(text, s) ==
  IF Len(text) < 7 \/ \E k \in 1..Len(s) : IsSurrogate(s[k]) THEN BadDate
  ELSE date_before(s, find_isoformat_datetime_separator(s))

\* datetime.fromisoformat(text): [ok, dt], ok FALSE standing for ValueError.
fromisoformat(text) == from_sanitized(text, sanitize_isoformat_str(text))

\* The text of a UTC offset, and app.py 255 and 265:
\* datetime.fromisoformat(text.replace('Z', '+00:00')).
UtcOffset == Chars(<<"+", "0", "0", ":", "0", "0">>)

ParseDate(text) == fromisoformat(replace(text, CapitalZ, UtcOffset))

\* The datetime as the driver binds it to a statement: the fields, the
\* time to the millisecond, without the offset.
SqlTime(dt) ==
  <<dt.year, dt.month, dt.day, dt.hour, dt.minute, dt.second,
    dt.microsecond \div 1000>>

\* The value of a DATETIME2 column holding second k.
StoredTime(k) == SqlTime(ClockTime(k))

\* The order of two bound or stored times.
TimeLeq(a, b) ==
  \/ a = b
  \/ \E i \in 1..Len(a) : a[i] < b[i] /\ \A j \in 1..(i - 1) : a[j] = b[j]

(***************************************************************************)
(* upload_data.  outcome is what the store does to this request: "ok",     *)
(* "connect_fail" (no connection), "execute_fail" (the statement fails),   *)
(* "commit_fail" (the commit fails and nothing is stored), "commit_lost"   *)
(* (the store commits and conn.commit() raises all the same) or            *)
(* "close_fail" (conn.close() raises, after the commit).                   *)
(***************************************************************************)
Failure(message) == [success |-> FALSE, message |-> message]

\* The body of a 500: application.py adds the environment.
InternalError(v, message) ==
  IF v = "dev" THEN Failure(message)
  ELSE [success |-> FALSE, message |-> message, environment |-> "production"]

\* What a handler hands back: the response, whether it opened a connection,
\* whether it closed it, and the table afterwards.
Result(status, body, opened, closed, rs) ==
  [status |-> status, body |-> body, opened |-> opened, closed |-> closed,
   rows |-> rs]

\* Up to cursor.execute of the INSERT (app.py 62-203, application.py
\* 140-197): either a response, or the insert with which the handler goes
\* on.  rs are the rows stored and the rows inserted by requests in flight;
\* now is the time of the statement, which CreatedAt takes.
execute_insert(v, data, outcome, rs, now, cols, vals) ==
  IF outcome = "connect_fail"
  THEN [done |-> TRUE,
        result |-> Result(500, InternalError(v, "Internal server error"),
                          FALSE, FALSE, rs)]
  ELSE IF outcome = "execute_fail" \/ ~InsertAccepted(cols, vals)
  THEN [done |-> TRUE,
        result |-> Result(500, InternalError(v, "Internal server error"),
                          TRUE, FALSE, rs)]
  ELSE [done |-> FALSE,
        next |-> [Id |-> vals.Id.uuid, data |-> data, cols |-> cols,
                  vals |-> vals, CreatedAt |-> now]]

\* The record id, the columns of the INSERT and the values bound to them.
insert_parsed(v, data, outcome, rs, now, parsed_data) ==
  execute_insert(v, data, outcome, rs, now,
                 IF v = "dev" THEN FixedColumns ELSE DynamicColumns(parsed_data),
                 [Id |-> str(NewId(rs)), DeviceId |-> data.deviceid,
                  fields |-> parsed_data.fields])

upload_data_insert(v, data, outcome, rs, now) ==
  IF data.kind = "notjson"
  THEN [done |-> TRUE,
        result |-> Result(400, Failure("Content-Type must be application/json"),
                          FALSE, FALSE, rs)]
  ELSE IF data.kind = "empty"
  THEN [done |-> TRUE,
        result |-> Result(400, Failure("No JSON data received"),
                          FALSE, FALSE, rs)]
  ELSE IF data.kind # "object"
  THEN [done |-> TRUE,
        result |-> Result(500, InternalError(v, "Internal server error"),
                          FALSE, FALSE, rs)]
  ELSE IF ~Truthy(data.deviceid)
  THEN [done |-> TRUE,
        result |-> Result(400, Failure("Device ID is required"),
                          FALSE, FALSE, rs)]
  ELSE insert_parsed(v, data, outcome, rs, now, Normalize(data))

\* conn.commit(), conn.close() and the response (app.py 205-223,
\* application.py 198-217): st is the insert, rs the rows stored, now the
\* time of the response.
upload_data_commit(v, st, outcome, rs, now) ==
  IF outcome = "commit_fail"
  THEN Result(500, InternalError(v, "Internal server error"), TRUE, FALSE, rs)
  ELSE IF outcome = "commit_lost" \/ outcome = "close_fail"
  THEN Result(500, InternalError(v, "Internal server error"), TRUE, FALSE,
              InsertRow(rs, st.cols, st.vals, st.Id, st.CreatedAt))
  ELSE Result(200,
              IF v = "dev"
              THEN [success |-> TRUE,
                    message |-> "Data received and stored successfully",
                    id |-> st.vals.Id,
                    device_id |-> st.data.deviceid,
                    timestamp |-> isoformat(ClockTime(now))]
              ELSE [success |-> TRUE,
                    message |-> "Data stored successfully in Azure SQL Database",
                    device_id |-> st.data.deviceid,
                    timestamp |-> isoformat(ClockTime(now)),
                    environment |-> "production"],
              TRUE, TRUE, InsertRow(rs, st.cols, st.vals, st.Id, st.CreatedAt))

(***************************************************************************)
(* get_data.  A query argument is [given, v] (text) or [given, valid, n]   *)
(* (an integer argument; valid FALSE when the text is not an integer).     *)
(***************************************************************************)
NoArg == [given |-> FALSE, v |-> <<>>]

Arg(text) == [given |-> TRUE, v |-> text]

NoInt == [given |-> FALSE, valid |-> TRUE, n |-> 0]

IntArg(n) == [given |-> TRUE, valid |-> TRUE, n |-> n]

BadInt == [given |-> TRUE, valid |-> FALSE, n |-> 0]

\* Python truthiness of a text argument: None and '' are falsy.
Supplied(a) == a.given /\ Len(a.v) > 0

DefaultPageSize == 100

MaxPageSize == 1000

DefaultLimit == 100

MaxLimit == 1000

\* request.args.get(name, default, type=int): the default when the argument
\* is missing or is not an integer.
ArgsGetInt(a, default) == IF a.given /\ a.valid THEN a.n ELSE default

\* app.py 237-240.
EffectivePage(page) == IF page < 1 THEN 1 ELSE page

EffectivePageSize(page_size) ==
  IF page_size < 1 \/ page_size > MaxPageSize THEN DefaultPageSize
  ELSE page_size

\* One predicate of the WHERE clause with its bound parameter.
Pred(col, op, s, t) == [col |-> col, op |-> op, s |-> s, t |-> t]

\* app.py 245-277: [ok, message, where]; ok FALSE is the 400 of a date that
\* does not parse.
where_of(args, sd, ed) ==
  IF Supplied(args.start_date) /\ ~sd.ok
  THEN [ok |-> FALSE, where |-> <<>>,
        message |-> "Invalid start_date format. Use ISO format."]
  ELSE IF Supplied(args.end_date) /\ ~ed.ok
  THEN [ok |-> FALSE, where |-> <<>>,
        message |-> "Invalid end_date format. Use ISO format."]
  ELSE [ok |-> TRUE, message |-> "",
        where |->
          (IF Supplied(args.device_id)
           THEN <<Pred("DeviceId", "=", args.device_id.v, <<>>)>> ELSE <<>>)
          \o (IF Supplied(args.start_date)
              THEN <<Pred("CreatedAt", ">=", <<>>, SqlTime(sd.dt))>> ELSE <<>>)
          \o (IF Supplied(args.end_date)
              THEN <<Pred("CreatedAt", "<=", <<>>, SqlTime(ed.dt))>> ELSE <<>>)]

BuildWhere(args) ==
  where_of(args, ParseDate(args.start_date.v), ParseDate(args.end_date.v))

\* application.py 229-235: only the device id is a predicate.
BuildWhereProd(args) ==
  IF Supplied(args.device_id)
  THEN <<Pred("DeviceId", "=", args.device_id.v, <<>>)>> ELSE <<>>

\* The = of T-SQL on two texts: the shorter is padded with blanks to the
\* length of the longer, so blanks at the end do not count.  Letters
\* compare by the collation of the column; no two device ids of the model
\* differ in the case of a letter alone.
PadTo(text, n) == text \o SubSeq([i \in 1..n |-> Space], 1, n - Len(text))

SqlEqual(a, b) ==
  PadTo(a, Max(Len(a), Len(b))) = PadTo(b, Max(Len(a), Len(b)))

Holds(row, c) ==
  IF c.col = "DeviceId" THEN SqlEqual(row.DeviceId, c.s)
  ELSE IF c.op = ">=" THEN TimeLeq(c.t, StoredTime(row.CreatedAt))
  ELSE TimeLeq(StoredTime(row.CreatedAt), c.t)

\* The predicates of a WHERE clause are joined with AND.
EvalWhere(row, where) == \A i \in 1..Len(where) : Holds(row, where[i])

\* SELECT COUNT(*) FROM FlowMeterData <where>.
CountQueryAll(rs, where) == Len(rs)

CountQuery(rs, where) ==
  Cardinality({i \in 1..Len(rs) : EvalWhere(rs[i], where)})

\* SELECT * FROM FlowMeterData <where> ORDER BY CreatedAt DESC: every order
\* of the matching rows the store may return (rows of one CreatedAt come in
\* any order).
SelectOrderedAsc(rs, where) ==
  LET I == {i \in 1..Len(rs) : EvalWhere(rs[i], where)}
      n == Cardinality(I)
      O == {o \in [1..n -> I] :
              /\ \A j, k \in 1..n : j # k => o[j] # o[k]
              /\ \A j, k \in 1..n :
                   j < k => rs[o[j]].CreatedAt <= rs[o[k]].CreatedAt}
  IN {[j \in 1..n |-> rs[o[j]]] : o \in O}

SelectOrdered(rs, where) ==
  LET I == {i \in 1..Len(rs) : EvalWhere(rs[i], where)}
      n == Cardinality(I)
      O == {o \in [1..n -> I] :
              /\ \A j, k \in 1..n : j # k => o[j] # o[k]
              /\ \A j, k \in 1..n :
                   j < k => rs[o[j]].CreatedAt >= rs[o[k]].CreatedAt}
  IN {[j \in 1..n |-> rs[o[j]]] : o \in O}

\* OFFSET offset ROWS FETCH NEXT n ROWS ONLY, and TOP (n) with offset 0.
Fetch(ordered, offset, n) ==
  IF offset >= Len(ordered) THEN <<>>
  ELSE SubSeq(ordered, offset + 1, Min(offset + n, Len(ordered)))

\* The conversion loop: Id as text, CreatedAt in ISO format.
Convert(data) ==
  [j \in 1..Len(data) |->
     [data[j] EXCEPT !.Id = str(data[j].Id),
                     !.CreatedAt = isoformat(ClockTime(data[j].CreatedAt))]]

(***************************************************************************)
(* get_data of app.py runs two statements: the count (lines 242-282) and   *)
(* the page (lines 284-309).  q holds the request between the two.         *)
(***************************************************************************)
IdleQ == [pc |-> "idle"]

\* app.py 228-282, up to the count: either a response, or the request
\* state with which the handler goes on.
count_where(args, outcome, rs, bw) ==
  IF outcome = "connect_fail"
  THEN [done |-> TRUE,
        result |-> Result(500, Failure("Error retrieving data"),
                          FALSE, FALSE, rs)]
  ELSE IF ~bw.ok
  THEN [done |-> TRUE,
        result |-> Result(400, Failure(bw.message), TRUE, FALSE, rs)]
  ELSE IF outcome = "execute_fail"
  THEN [done |-> TRUE,
        result |-> Result(500, Failure("Error retrieving data"),
                          TRUE, FALSE, rs)]
  ELSE [done |-> FALSE,
        next |-> [pc |-> "counted", args |-> args,
                  page |-> EffectivePage(ArgsGetInt(args.page, 1)),
                  page_size |->
                    EffectivePageSize(ArgsGetInt(args.page_size,
                                                 DefaultPageSize)),
                  where |-> bw.where,
                  total_count |-> CountQuery(rs, bw.where)]]

get_data_count(args, outcome, rs) ==
  count_where(args, outcome, rs, BuildWhere(args))

\* app.py 284-309: the responses the page statement can lead to.
get_data_page(st, outcome, rs) ==
  IF outcome = "execute2_fail" \/ outcome = "close_fail"
  THEN {Result(500, Failure("Error retrieving data"), TRUE, FALSE, rs)}
  ELSE LET offset == (st.page - 1) * st.page_size
       IN {Result(200,
                  [success |-> TRUE, totalCount |-> st.total_count,
                   page |-> st.page, pageSize |-> st.page_size,
                   data |-> Convert(Fetch(ordered, offset, st.page_size))],
                  TRUE, TRUE, rs) : ordered \in SelectOrdered(rs, st.where)}

\* application.py 219-263.
get_data_prod(args, outcome, rs) ==
  IF args.limit.given /\ ~args.limit.valid
  THEN {Result(500, InternalError("prod", "Error retrieving data"),
               FALSE, FALSE, rs)}
  ELSE
    LET limit == Min(ArgsGetInt(args.limit, DefaultLimit), MaxLimit)
    IN IF outcome = "connect_fail"
       THEN {Result(500, InternalError("prod", "Error retrieving data"),
                    FALSE, FALSE, rs)}
       ELSE IF outcome = "execute_fail" \/ limit < 0 \/ outcome = "close_fail"
       THEN {Result(500, InternalError("prod", "Error retrieving data"),
                    TRUE, FALSE, rs)}
       ELSE {Result(200,
                    [success |-> TRUE,
                     data |-> Convert(Fetch(ordered, 0, limit)),
                     count |-> Len(Fetch(ordered, 0, limit)),
                     environment |-> "production"],
                    TRUE, TRUE, rs) :
               ordered \in SelectOrdered(rs, BuildWhereProd(args))}

(***************************************************************************)
(* health_check.  detail is the text of the driver's error.                *)
(***************************************************************************)
ErrorDetails == {"login timeout expired", "connection reset by peer"}

health_check(v, outcome, detail, rs, now) ==
  IF outcome \in {"connect_fail", "execute_fail", "close_fail"}
  THEN Result(500,
              IF v = "dev"
              THEN [status |-> "unhealthy", timestamp |-> isoformat(ClockTime(now)),
                    database |-> "disconnected", error |-> detail]
              ELSE [status |-> "unhealthy",
                    error |-> "Database connection failed",
                    environment |-> "production",
                    timestamp |-> isoformat(ClockTime(now))],
              outcome # "connect_fail", FALSE, rs)
  ELSE Result(200,
              IF v = "dev"
              THEN [status |-> "healthy", timestamp |-> isoformat(ClockTime(now)),
                    database |-> "connected"]
              ELSE [status |-> "healthy", database |-> "connected",
                    environment |-> "production",
                    timestamp |-> isoformat(ClockTime(now)), service |-> "Azure Web App"],
              TRUE, TRUE, rs)

(***************************************************************************)
(* The requests the model sends.                                           *)
(***************************************************************************)
NoFields == [f \in {} |-> Absent]

\* A JSON object with a device id and the keys FT1MassFlow, FT1Temp and
\* FT9Density; the other 51 keys are missing.
Object(dev, massflow1, temp1, density9) ==
  [kind |-> "object", deviceid |-> dev,
   fields |-> [f \in {<<1, "MassFlow">>, <<1, "Temp">>, <<9, "Density">>} |->
                 IF f = <<1, "MassFlow">> THEN massflow1
                 ELSE IF f = <<1, "Temp">> THEN temp1
                 ELSE density9]]

\* A body that is no JSON object: kind "notjson" (wrong content type),
\* "empty" (a falsy JSON value such as {}) or "nonobject" (a JSON list).
Body(kind) == [kind |-> kind, deviceid |-> NoDevice, fields |-> NoFields]

Marked125 == Chars(<<"$", "$", "1", "2", ".", "5", "$", "$">>)

MarkedBlank == Chars(<<"$", "$", " ", " ", " ", "$", "$">>)

\* '1234567.8912', and '12.5' between a form feed and a vertical tab.
LongNumeral ==
  Chars(<<"1", "2", "3", "4", "5", "6", "7", ".", "8", "9", "1", "2">>)

FormFeed125 == <<12>> \o Chars(<<"1", "2", ".", "5">>) \o <<11>>

\* '0.00004999999999999999999999', whose nearest double is 5e-05, and
\* '99999999999999.9999', whose nearest double is 1e14.
BelowHalf ==
  Chars(<<"0", ".", "0", "0", "0", "0", "4", "9", "9", "9", "9", "9", "9",
          "9", "9", "9", "9", "9", "9", "9", "9", "9", "9", "9", "9", "9",
          "9", "9">>)

BelowLimit ==
  Chars(<<"9", "9", "9", "9", "9", "9", "9", "9", "9", "9", "9", "9", "9",
          "9", ".", "9", "9", "9", "9">>)

\* The device ids 'FM-7' and 'FM-8', 'FM-7' followed by a blank, and a
\* device id of 51 characters.
FM7 == Chars(<<"F", "M", "-", "7">>)

FM8 == Chars(<<"F", "M", "-", "8">>)

FM7Blank == FM7 \o <<Space>>

LongDevice ==
  Chars(<<"F", "M", "-", "3", "4", "5", "6", "7", "8", "9", "0", "1", "2", "3",
          "4", "5", "6", "7", "8", "9", "0", "1", "2", "3", "4", "5", "6", "7",
          "8", "9", "0", "1", "2", "3", "4", "5", "6", "7", "8", "9", "0", "1",
          "2", "3", "4", "5", "6", "7", "8", "9", "0">>)

UploadPayloads ==
  { Body("notjson"), Body("empty"), Body("nonobject"),
    Object(NoDevice, Text(Chars(<<"1">>)), Absent, Absent),
    Object(DevStr(<<>>), Text(Chars(<<"1">>)), Absent, Absent),
    Object(DevInt(<<Zero + 7>>), Text(LongNumeral), Text(FormFeed125), Text(Chars(<<"0">>))),
    Object(DevStr(FM7), Text(Marked125), Text(MarkedBlank), Absent),
    Object(DevStr(FM7), Text(Chars(<<"n", "a", "n">>)), Absent, Absent),
    Object(DevStr(FM8), Text(Chars(<<"1", ".", "2", "3", "4", "5", "6">>)),
           JsonNumber, Text(Chars(<<"a", "b", "c">>))),
    Object(DevStr(FM8), Text(Chars(<<"1", "e", "1", "4">>)), Absent, Absent),
    Object(DevStr(LongDevice), Text(Chars(<<"1">>)), Absent, Absent) }

Query(device_id, start_date, end_date, page, page_size, limit) ==
  [device_id |-> device_id, start_date |-> start_date, end_date |-> end_date,
   page |-> page, page_size |-> page_size, limit |-> limit]

\* Date texts: a space for the 'T', a 'Z', the basic format with a fraction
\* of a millisecond, an offset, no date, month 13, and two 'Z'.
SpacedSecond2 ==
  Chars(<<"2", "0", "2", "4", "-", "0", "1", "-", "0", "1", " ", "0", "0", ":",
          "0", "0", ":", "0", "2">>)

ZuluSecond1 ==
  Chars(<<"2", "0", "2", "4", "-", "0", "1", "-", "0", "1", "T", "0", "0", ":",
          "0", "0", ":", "0", "1", "Z">>)

BasicSecond1 ==
  Chars(<<"2", "0", "2", "4", "0", "1", "0", "1", "T", "0", "0", "0", "0", "0",
          "1", ".", "0", "0", "0", "5">>)

OffsetSecond2 ==
  Chars(<<"2", "0", "2", "4", "-", "0", "1", "-", "0", "1", "t", "0", "0", ":",
          "0", "0", ":", "0", "2", "-", "0", "5", ":", "0", "0">>)

NotADate == Chars(<<"n", "o", "t", "-", "a", "-", "d", "a", "t", "e">>)

Month13 ==
  Chars(<<"2", "0", "2", "4", "-", "1", "3", "-", "0", "1", "T", "0", "0", ":",
          "0", "0", ":", "0", "1">>)

TwoZulu == ZuluSecond1 \o Chars(<<"Z">>)

QueryArgs ==
  { Query(NoArg, NoArg, NoArg, NoInt, NoInt, NoInt),
    Query(Arg(FM7Blank), NoArg, NoArg, NoInt, NoInt, NoInt),
    Query(Arg(FM8), Arg(SpacedSecond2), NoArg, NoInt, NoInt, NoInt),
    Query(Arg(<<>>), NoArg, Arg(ZuluSecond1), NoInt, NoInt, NoInt),
    Query(NoArg, Arg(BasicSecond1), Arg(OffsetSecond2), NoInt, NoInt, NoInt),
    Query(NoArg, Arg(NotADate), Arg(TwoZulu), NoInt, NoInt, NoInt),
    Query(Arg(FM7), Arg(<<>>), Arg(Month13), NoInt, NoInt, NoInt),
    Query(Arg(FM7), NoArg, NoArg, IntArg(2), IntArg(1), IntArg(1)),
    Query(NoArg, NoArg, NoArg, IntArg(0), IntArg(0), IntArg(0 - 1)),
    Query(NoArg, NoArg, NoArg, BadInt, IntArg(1001), IntArg(2000)),
    Query(NoArg, NoArg, NoArg, NoInt, IntArg(1000), BadInt) }

(***************************************************************************)
(* State and actions.                                                      *)
(***************************************************************************)
NoResp == [seq |-> 0, endpoint |-> "none", req |-> [kind |-> "none"],
           status |-> 0, opened |-> FALSE, closed |-> FALSE,
           body |-> [success |-> FALSE]]

\* The response to request req; seq tells one response from the next.
Respond(endpoint, req, r) ==
  [seq |-> 1 - last.seq, endpoint |-> endpoint, req |-> req,
   status |-> r.status, opened |-> r.opened, closed |-> r.closed,
   body |-> r.body]

\* A handler that returns without conn.close() leaves its connection open.
Leaves(r) == r.opened /\ ~r.closed

Pending == [kind |-> "pending", neg |-> FALSE, digits |-> <<>>, exp |-> 0]

Init ==
  /\ variant \in {"dev", "prod"}
  /\ rows = <<>>
  /\ clock = 1
  /\ q = IdleQ
  /\ u = <<>>
  /\ last = NoResp
  /\ raw = Absent
  /\ parsed = NullV

Finish(endpoint, req, r) ==
  /\ Len(r.rows) <= MaxRows
  /\ rows' = r.rows
  /\ last' = Respond(endpoint, req, r)

\* A store failure happens only to a request that gets as far as the store.
UploadReachesStore(data) == data.kind = "object" /\ Truthy(data.deviceid)

\* upload_data as two steps, other requests running in between: the INSERT,
\* whose row waits in u for its commit, and the commit.  Rows become
\* visible in the order of their commits.
Inserted(data, i) ==
  IF i.done
  THEN /\ last' = Respond("upload", data, [i.result EXCEPT !.rows = rows])
       /\ u' = u
  ELSE /\ Len(rows) + Len(u) < MaxRows
       /\ u' = Append(u, i.next)
       /\ last' = last

UploadBegin(data, outcome) ==
  /\ Len(u) < MaxInFlight
  /\ outcome # "ok" => UploadReachesStore(data)
  /\ Inserted(data, upload_data_insert(variant, data, outcome, rows \o u, clock))
  /\ UNCHANGED <<variant, rows, clock, q, raw, parsed>>

UploadCommit(k, outcome) ==
  /\ k \in 1..Len(u)
  /\ Finish("upload", u[k].data,
            upload_data_commit(variant, u[k], outcome, rows, clock))
  /\ u' = [j \in 1..(Len(u) - 1) |-> IF j < k THEN u[j] ELSE u[j + 1]]
  /\ UNCHANGED <<variant, clock, q, raw, parsed>>

\* get_data of app.py as two steps, other requests running in between:
\* the count statement, and the page statement with the response.
Counted(args, c) ==
  IF c.done
  THEN Finish("data", args, c.result) /\ q' = q
  ELSE q' = c.next /\ UNCHANGED <<rows, last>>

QueryBegin(args, outcome) ==
  /\ variant = "dev"
  /\ q.pc = "idle"
  /\ Counted(args, get_data_count(args, outcome, rows))
  /\ UNCHANGED <<variant, clock, u, raw, parsed>>

QueryFinish(outcome) ==
  /\ variant = "dev"
  /\ q.pc = "counted"
  /\ \E r \in get_data_page(q, outcome, rows) : Finish("data", q.args, r)
  /\ q' = IdleQ
  /\ UNCHANGED <<variant, clock, u, raw, parsed>>

QueryProd(args, outcome) ==
  /\ variant = "prod"
  /\ outcome # "ok" => ~(args.limit.given /\ ~args.limit.valid)
  /\ \E r \in get_data_prod(args, outcome, rows) : Finish("data", args, r)
  /\ UNCHANGED <<variant, clock, q, u, raw, parsed>>

Health(outcome, detail) ==
  /\ outcome = "ok" => detail = "login timeout expired"
  /\ Finish("health", [kind |-> "health"],
            health_check(variant, outcome, detail, rows, clock))
  /\ UNCHANGED <<variant, clock, q, u, raw, parsed>>

\* Time passes at the store.
Tick ==
  /\ clock < MaxClock
  /\ clock' = clock + 1
  /\ UNCHANGED <<variant, rows, q, u, last, raw, parsed>>

ProdOutcomes == {"ok", "connect_fail", "execute_fail", "close_fail"}

\* What the store can do to the first and to the second half of a request
\* that others overlap.
FirstOutcomes == {"ok", "connect_fail", "execute_fail"}

PageOutcomes == {"ok", "execute2_fail", "close_fail"}

CommitOutcomes == {"ok", "commit_fail", "commit_lost", "close_fail"}

\* The uploads that fill the table for the queries: one rejected, two stored.
SamplePayloads ==
  { Object(NoDevice, Text(Chars(<<"1">>)), Absent, Absent),
    Object(DevStr(FM7), Text(Marked125), Text(MarkedBlank), Absent),
    Object(DevStr(FM8), Text(Chars(<<"1", ".", "2", "3", "4", "5", "6">>)),
           JsonNumber, Text(Chars(<<"a", "b", "c">>))) }

\* Uploads and queries of both variants; uploads overlap each other and
\* the queries.
Next ==
  \/ \E data \in SamplePayloads, outcome \in FirstOutcomes : UploadBegin(data, outcome)
  \/ \E k \in 1..MaxInFlight, outcome \in CommitOutcomes : UploadCommit(k, outcome)
  \/ \E args \in QueryArgs, outcome \in FirstOutcomes : QueryBegin(args, outcome)
  \/ \E outcome \in PageOutcomes : QueryFinish(outcome)
  \/ \E args \in QueryArgs, outcome \in ProdOutcomes : QueryProd(args, outcome)
  \/ Tick

Spec == Init /\ [][Next]_vars

\* Ingestion: every upload payload under every store outcome, and the
\* health probe.
NextIngest ==
  \/ \E data \in UploadPayloads, outcome \in FirstOutcomes : UploadBegin(data, outcome)
  \/ \E k \in 1..MaxInFlight, outcome \in CommitOutcomes : UploadCommit(k, outcome)
  \/ \E outcome \in ProdOutcomes, detail \in ErrorDetails : Health(outcome, detail)
  \/ Tick

SpecIngest == Init /\ [][NextIngest]_vars

\* Requests overlap: an upload can commit between the two statements of a
\* paginated query.
RaceUploads ==
  { Object(DevStr(FM7), Text(Marked125), Text(MarkedBlank), Absent) }

RaceArgs ==
  { Query(NoArg, NoArg, NoArg, NoInt, NoInt, NoInt),
    Query(Arg(FM7), NoArg, NoArg, IntArg(2), IntArg(1), NoInt) }

NextRace ==
  \/ \E data \in RaceUploads, outcome \in FirstOutcomes : UploadBegin(data, outcome)
  \/ \E k \in 1..MaxInFlight, outcome \in CommitOutcomes : UploadCommit(k, outcome)
  \/ \E args \in RaceArgs, outcome \in FirstOutcomes : QueryBegin(args, outcome)
  \/ \E outcome \in PageOutcomes : QueryFinish(outcome)
  \/ Tick

InitRace == Init /\ variant = "dev"

SpecRace == InitRace /\ [][NextRace]_vars

(***************************************************************************)
(* parse_float on its own: every text of at most MaxLen characters over    *)
(* Alphabet, the non-text values, and the texts of Examples.               *)
(***************************************************************************)
Alphabet == {ord(c) : c \in {"$", " ", "1", "9", ".", "-", "e", "n", "a"}}

Examples ==
  { Marked125, MarkedBlank, Chars(<<"a", "b", "c">>),
    Chars(<<"1", "e", "9", "9", "9">>), Chars(<<"-", "i", "n", "f">>),
    Chars(<<"I", "n", "f", "i", "n", "i", "t", "y">>),
    Chars(<<"N", "a", "N">>), Chars(<<"1", "_", "0">>),
    Chars(<<"1", ".", "2", "3", "4", "5", "6">>),
    Chars(<<"$", "$", "0", "$", "$">>),
    <<9>> \o Chars(<<"1", "E", "+", "2">>) \o <<10>>,
    FormFeed125,
    <<28>> \o Chars(<<"$", "$", "1">>) \o <<160, 8195>>,
    Chars(<<"1">>) \o <<28>> \o Chars(<<"2">>),
    <<1635>>, <<65297, 65298>>, Chars(<<"1", "_">>) \o <<1635>>, <<178>>,
    LongNumeral,
    Chars(<<"1", "2", "3", "4", "5", "6", "7", "8", "9", "0", "1", "2", "3", "4",
            "5", "6", "7", "8", "9", "0">>),
    Chars(<<"1", ".", "7", "9", "7", "6", "9", "3", "1", "3", "4", "8", "6", "2",
            "3", "1", "5", "8", "e", "3", "0", "8">>),
    Chars(<<"1", ".", "7", "9", "7", "6", "9", "3", "1", "3", "4", "8", "6", "2",
            "3", "1", "5", "9", "e", "3", "0", "8">>),
    Chars(<<"2", ".", "4", "7", "0", "3", "2", "8", "2", "2", "9", "2", "0", "6",
            "2", "3", "2", "7", "e", "-", "3", "2", "4">>),
    Chars(<<"2", ".", "4", "7", "0", "3", "2", "8", "2", "2", "9", "2", "0", "6",
            "2", "3", "2", "8", "e", "-", "3", "2", "4">>),
    Chars(<<"-", "0", ".", "0", "0", "0", "0", "5">>),
    BelowHalf, BelowLimit,
    Chars(<<"9", ".", "9", "9", "9", "9", "9", "9", "9", "9", "9", "9", "9",
          "9", "9", "9", "9", "9", "e", "1", "3">>),
    Chars(<<"0", ".", "1", "0", "0", "0", "0", "0", "0", "0", "0", "0", "0",
          "0", "0", "0", "0", "0", "0", "5", "5", "5", "1", "1", "1", "5",
          "1", "2", "3", "1", "2", "5", "7", "8", "2", "7">>) }

Texts(n) == UNION {[1..k -> Alphabet] : k \in 0..n}

RawInputs ==
  {Absent, JsonNumber} \cup {Text(s) : s \in Texts(MaxLen) \cup Examples}

InitParse ==
  /\ raw \in RawInputs
  /\ parsed = Pending
  /\ variant = "dev"
  /\ rows = <<>>
  /\ clock = 1
  /\ q = IdleQ
  /\ u = <<>>
  /\ last = NoResp

Parse ==
  /\ parsed = Pending
  /\ parsed' = parse_float(raw)
  /\ UNCHANGED <<variant, rows, clock, q, u, last, raw>>

NextParse == Parse

SpecParse == InitParse /\ [][NextParse]_vars

(***************************************************************************)
(* Properties.                                                             *)
(***************************************************************************)
IsUpload == last.endpoint = "upload"

IsData == last.endpoint = "data"

\* A device id that is a non-empty string.
NonEmptyString(d) == d.t = "str" /\ Len(d.v) > 0

\* C1: an upload whose deviceid is absent, empty or not a string is answered
\* 400 and opens no store connection.
C1_MissingDeviceIdRejected ==
  IsUpload /\ last.req.kind = "object" /\ ~NonEmptyString(last.req.deviceid)
    => last.status = 400 /\ ~last.opened

FiniteOrNull(v) == v.kind = "finite" \/ v.kind = "null"

\* C2: for every upload payload with a non-empty device id each of the 54
\* normalized measurement fields is a finite float or null.
C2_FieldsFiniteOrNull ==
  IsUpload /\ last.req.kind = "object" /\ Truthy(last.req.deviceid)
    => \A f \in FieldNames : FiniteOrNull(Normalize(last.req).fields[f])

\* The number a decimal numeral denotes (sign, digits, optional fraction,
\* optional exponent; digits may be grouped with single underscores),
\* ValueError for any other text.
Numeral(text) ==
  LET plain == IF UnderscoresOK(text) THEN DropUnderscores(text) ELSE <<Underscore>>
      neg   == Len(plain) > 0 /\ plain[1] = MinusSign
      body  == IF Len(plain) > 0 /\ IsSign(plain[1]) THEN Tail(plain) ELSE plain
      ePos  == FirstIndex(body, {SmallE, CapitalE})
      mPart == IF ePos = 0 THEN body ELSE SubSeq(body, 1, ePos - 1)
      ePart == IF ePos = 0 THEN <<>> ELSE SubSeq(body, ePos + 1, Len(body))
      dPos  == FirstIndex(mPart, {Point})
      ip    == IF dPos = 0 THEN mPart ELSE SubSeq(mPart, 1, dPos - 1)
      fp    == IF dPos = 0 THEN <<>> ELSE SubSeq(mPart, dPos + 1, Len(mPart))
      eNeg  == Len(ePart) > 0 /\ ePart[1] = MinusSign
      eDig  == IF Len(ePart) > 0 /\ IsSign(ePart[1]) THEN Tail(ePart) ELSE ePart
      eVal  == IF eNeg THEN 0 - CappedNat(eDig) ELSE CappedNat(eDig)
  IN IF /\ AllDigits(ip) /\ AllDigits(fp) /\ Len(ip) + Len(fp) >= 1
        /\ (ePos # 0 => Len(eDig) >= 1 /\ AllDigits(eDig))
     THEN FiniteV(neg, DigitValues(ip \o fp), eVal - Len(fp))
     ELSE ValueError

\* The float of a numeral: the double nearest to the number it denotes,
\* and the number itself where no finite double is near it.
Denoted(text) ==
  LET n == Numeral(text)
      d == ToDouble(n.neg, n.digits, n.exp)
  IN IF n = ValueError THEN ValueError
     ELSE IF d.kind = "finite" THEN d ELSE n

\* C3: parse_float gives null for a value that is missing or not textual,
\* for an empty remainder and for a remainder that is not numeric text; a
\* numeric remainder gives the number it denotes.
C3_ParseFloat ==
  parsed # Pending =>
    IF raw.kind # "text" \/ Len(Cleaned(raw.text)) = 0
         \/ Numeral(Cleaned(raw.text)) = ValueError
    THEN parsed = NullV
    ELSE parsed = Denoted(Cleaned(raw.text))

\* C4: no step changes or removes a stored row; an upload answered 200 adds
\* exactly one row, an upload answered 400 or 500 adds none, and no other
\* request adds any.
C4_AppendOnly ==
  [][/\ Len(rows') >= Len(rows)
     /\ SubSeq(rows', 1, Len(rows)) = rows
     /\ (last'.seq # last.seq /\ last'.endpoint = "upload" /\ last'.status = 200
           => Len(rows') = Len(rows) + 1)
     /\ (last'.seq = last.seq \/ last'.endpoint # "upload" \/ last'.status # 200
           => rows' = rows)]_vars

\* The time an ISO text of a response denotes.
IsoIndex(text) == SqlTime(fromisoformat(text).dt)

\* C5: the records of every successful data query come newest first: each
\* record's CreatedAt is at or after that of the record following it.
C5_NewestFirst ==
  IsData /\ last.status = 200 =>
    \A j \in 1..(Len(last.body.data) - 1) :
      TimeLeq(IsoIndex(last.body.data[j + 1].CreatedAt),
              IsoIndex(last.body.data[j].CreatedAt))

\* A query has returned two records created at different times, the one
\* created later committed first.
C5_Witness ==
  /\ IsData /\ last.status = 200
  /\ Len(last.body.data) = 2
  /\ last.body.data[1].CreatedAt # last.body.data[2].CreatedAt
  /\ Len(rows) = 2 /\ rows[1].CreatedAt > rows[2].CreatedAt

\* A row of device d created at time t passes every supplied filter; two
\* device ids are one when they differ in blanks at the end only.
Satisfies(d, t, args) ==
  /\ Supplied(args.device_id)
       => RStripOf(d, {Space}) = RStripOf(args.device_id.v, {Space})
  /\ Supplied(args.start_date) /\ ParseDate(args.start_date.v).ok
       => TimeLeq(SqlTime(ParseDate(args.start_date.v).dt), t)
  /\ Supplied(args.end_date) /\ ParseDate(args.end_date.v).ok
       => TimeLeq(t, SqlTime(ParseDate(args.end_date.v).dt))

\* C6: every record a data query returns satisfies all the supplied filters
\* (device_id, start_date, end_date).
C6_FiltersConjoined ==
  IsData /\ last.status = 200 =>
    \A j \in 1..Len(last.body.data) :
      Satisfies(last.body.data[j].DeviceId,
                IsoIndex(last.body.data[j].CreatedAt), last.req)

\* The page size the contract documents: the default below 1, 1000 above
\* 1000, the requested value otherwise.
ClaimedPageSize(page_size) ==
  IF page_size < 1 THEN DefaultPageSize
  ELSE IF page_size > MaxPageSize THEN MaxPageSize
  ELSE page_size

\* C7: the page size a paginated query echoes is the default 100 for a
\* request of 0 or less, 1000 for a request above 1000 and the request
\* otherwise; a page below 1 is page 1.
C7_PageSizeClamped ==
  IsData /\ last.status = 200 /\ variant = "dev" =>
    /\ last.body.pageSize
         = ClaimedPageSize(ArgsGetInt(last.req.page_size, DefaultPageSize))
    /\ last.body.page = EffectivePage(ArgsGetInt(last.req.page, 1))

\* A date filter that is supplied and does not parse.
Malformed(a) == Supplied(a) /\ ~ParseDate(a.v).ok

\* C8: a data query with a malformed start_date or end_date is answered 400
\* and opens no store connection.
C8_BadDateRejectedEarly ==
  IsData /\ (Malformed(last.req.start_date) \/ Malformed(last.req.end_date))
    => last.status = 400 /\ ~last.opened

\* The number of the rows rs that pass the filters of args.
Matching(rs, args) ==
  Cardinality({i \in 1..Len(rs) :
                 Satisfies(rs[i].DeviceId, StoredTime(rs[i].CreatedAt), args)})

DeviceQuery(d) == Query(Arg(d.v), NoArg, NoArg, NoInt, NoInt, NoInt)

PageResults(c, rs) ==
  IF c.done THEN {c.result} ELSE get_data_page(c.next, "ok", rs)

QueryResults(v, args, rs) ==
  IF v = "dev" THEN PageResults(get_data_count(args, "ok", rs), rs)
  ELSE get_data_prod(args, "ok", rs)

\* Some record of the response is of device d with measurements that
\* stand in the relation Same to the values fs, field by field.
Returns(r, d, fs, Same(_, _)) ==
  /\ r.status = 200
  /\ \E j \in 1..Len(r.body.data) :
       /\ r.body.data[j].DeviceId = d.v
       /\ \A f \in FieldNames : Same(r.body.data[j].fields[f], fs[f])

Exactly(s, v) == s = v

\* C10 as stated: after an upload answered 200 for device d, the query by d
\* returns a record whose measurements are exactly the normalized values
\* of the payload, null where the payload gave none.
C10_RoundTripExact ==
  IsUpload /\ last.status = 200 =>
    \A r \in QueryResults(variant, DeviceQuery(last.req.deviceid), rows) :
      Returns(r, last.req.deviceid, Normalize(last.req).fields, Exactly)

\* The natural v.digits * 10^(v.exp - e) of a finite v, for e <= v.exp.
UnitsAt(v, e) == Times10(FromDigits(v.digits), v.exp - e)

\* |a - b| for naturals.
Apart(a, b) == IF BigLess(a, b) THEN BigSub(b, a) ELSE BigSub(a, b)

\* Half a unit of the fourth decimal place.
HalfUnit == FiniteV(FALSE, <<5>>, 0 - 5)

\* |s - v| is at most half a unit of the fourth decimal place, for s and v
\* of one sign and e at or below the exponents of s, v and HalfUnit.
NearAt(s, v, e) ==
  ~BigLess(UnitsAt(HalfUnit, e), Apart(UnitsAt(s, e), UnitsAt(v, e)))

\* s is v to four decimal places: null for null; else a multiple of 0.0001
\* of the sign of v (zero without sign) that is nearest to v.
ToFourPlaces(s, v) ==
  IF v.kind # "finite" THEN s = v
  ELSE /\ s.kind = "finite"
       /\ IF IsZero(s) THEN ~s.neg ELSE s.neg = v.neg /\ s.exp >= 0 - 4
       /\ NearAt(s, v, Min(v.exp, 0 - 5))

\* C10 amended: after an upload answered 200 for device d, the query by d
\* returns a record whose measurements are the normalized values of the
\* payload rounded to the four decimal places of the DECIMAL(18,4) columns,
\* null where the payload gave none, under both insert strategies.
C10_RoundTrip ==
  IsUpload /\ last.status = 200 =>
    \A r \in QueryResults(variant, DeviceQuery(last.req.deviceid), rows) :
      Returns(r, last.req.deviceid, Normalize(last.req).fields, ToFourPlaces)

\* The dynamic column-list insert has stored a payload with a value of more
\* than four decimal places, stored as another value, and with fields that
\* normalize to null.
C10_Witness ==
  /\ IsUpload /\ last.status = 200 /\ variant = "prod"
  /\ LET n == Normalize(last.req).fields
     IN /\ \E f \in FieldNames :
             /\ n[f].kind = "finite" /\ n[f].exp < 0 - 4
             /\ rows[Len(rows)].fields[f] # n[f]
        /\ \E f \in DOMAIN last.req.fields : n[f] = NullV

(***************************************************************************)
(* Store failures, the upload receipt, overlapping requests, connections.  *)
(***************************************************************************)
\* A response body without its timestamp.
SansTimestamp(b) == [k \in DOMAIN b \ {"timestamp"} |-> b[k]]

StoreFailures == {"connect_fail", "execute_fail", "close_fail"}

\* C11: the body of a response to a store failure does not depend on the
\* text of the driver's error: a failed health probe answers 500 with the
\* body, apart from the timestamp, that it gives under every other error
\* text, and a failed upload answers 500 with the fixed message alone.
C11_ErrorTextIndependent ==
  /\ last.endpoint = "health" /\ last.status = 500 =>
       \A o \in StoreFailures, d \in ErrorDetails :
         SansTimestamp(health_check(variant, o, d, rows, clock).body)
           = SansTimestamp(last.body)
  /\ IsUpload /\ last.status = 500 =>
       last.body = InternalError(variant, "Internal server error")

\* C12: every upload answered 200 has a body with the id of the row it
\* stored (the id a data query returns for that row), the device id and a
\* timestamp.
C12_ReceiptCarriesId ==
  IsUpload /\ last.status = 200 =>
    /\ "id" \in DOMAIN last.body
    /\ last.body.id = Convert(rows)[Len(rows)].Id
    /\ "device_id" \in DOMAIN last.body
    /\ last.body.device_id = last.req.deviceid
    /\ "timestamp" \in DOMAIN last.body

\* C13: in a paginated response, with effective page p and page size s,
\* (p-1)*s + len(data) <= totalCount and
\* len(data) = min(s, max(0, totalCount - (p-1)*s)), also when an upload
\* commits between the count statement and the page statement.
C13_PageMatchesCount ==
  IsData /\ last.status = 200 /\ variant = "dev" =>
    LET p == last.body.page
        s == last.body.pageSize
        n == Len(last.body.data)
        t == last.body.totalCount
    IN /\ (p - 1) * s + n <= t
       /\ n = Min(s, Max(0, t - (p - 1) * s))

\* C14: every connection a request opens is closed when its response is
\* returned, whatever the response: no response leaves a connection open.
C14_ConnectionsClosed == ~Leaves(last)

====
